---- MODULE Spec2Model ----
(***************************************************************************)
(* Model of the conversation-analysis service (src/index.js): the          *)
(* normalizer, the scorer, the aggregator and the full-batch pipeline      *)
(* POST /api/analyze-conversations, the concurrent callers of             *)
(* connectToMongoDB, and of the sampling variant (src/unnamed/part_000):   *)
(* getChatSessionsByDate and getSessionsAndProcessWithAgent.               *)
(*                                                                         *)
(* JavaScript values are tagged records [t, v]:                            *)
(*   undef, null, bool (v: BOOLEAN), num (v: the number in hundredths),    *)
(*   nan, str (v: a sequence of one-character strings),                    *)
(*   obj (v: a function from field names to values),                       *)
(*   arr (v: the sequence of the elements).                                *)
(***************************************************************************)
EXTENDS Integers, Sequences, FiniteSets, TLC

(***************************************************************************)
(* Bounds of the model.                                                    *)
(***************************************************************************)
MaxSessions == 3

(***************************************************************************)
(* JavaScript values.                                                      *)
(***************************************************************************)
Undef == [t |-> "undef", v |-> 0]
Null == [t |-> "null", v |-> 0]
NaN == [t |-> "nan", v |-> 0]
Bool(b) == [t |-> "bool", v |-> b]
\* a number given in hundredths: Hundredths(125) is 1.25
Hundredths(h) == [t |-> "num", v |-> h]
\* an integer literal: N(5) is 5
N(n) == [t |-> "num", v |-> n * 100]
Str(s) == [t |-> "str", v |-> s]
Obj(f) == [t |-> "obj", v |-> f]
EmptyObj == Obj(<<>>)
Arr(s) == [t |-> "arr", v |-> s]

Digits == <<"0", "1", "2", "3", "4", "5", "6", "7", "8", "9">>

\* ToBoolean: the values an `if (x)` or `x && ...` takes as true
Truthy(x) ==
    CASE x.t = "undef" -> FALSE
      [] x.t = "null" -> FALSE
      [] x.t = "nan" -> FALSE
      [] x.t = "bool" -> x.v
      [] x.t = "num" -> x.v # 0
      [] x.t = "str" -> Len(x.v) > 0
      [] OTHER -> TRUE

\* x is null or undefined: x.f throws a TypeError, x?.f is undefined
Nullish(x) == x.t \in {"undef", "null"}

\* o.f for a non-nullish o: an own field of an object, undefined otherwise
\* (none of the field names read here is a built-in property of a primitive)
Get(o, f) == IF o.t = "obj" /\ f \in DOMAIN o.v THEN o.v[f] ELSE Undef

\* o.f?.g
OptGet(o, f, g) == IF Nullish(Get(o, f)) THEN Undef ELSE Get(Get(o, f), g)

\* o.f = x on an object o
Put(o, f, x) ==
    Obj([k \in (DOMAIN o.v) \cup {f} |-> IF k = f THEN x ELSE o.v[k]])

\* typeof x === 'string'
IsString(x) == x.t = "str"

\* typeof x === 'object' (null included)
TypeofObject(x) == x.t \in {"obj", "arr", "null"}

\* { ...x } for an object or an array x: a new plain object with the own
\* enumerable fields of x, an array's being its indices (fewer than ten here)
Spread(x) ==
    IF x.t = "arr"
    THEN Obj([k \in {Digits[n] : n \in 1..Len(x.v)} |->
                 x.v[CHOOSE n \in 1..Len(x.v) : Digits[n] = k]])
    ELSE x

(***************************************************************************)
(* String.prototype.toLowerCase, letter by letter.                         *)
(***************************************************************************)
UpperLetters ==
    <<"A", "B", "C", "D", "E", "F", "G", "H", "I", "J", "K", "L", "M",
      "N", "O", "P", "Q", "R", "S", "T", "U", "V", "W", "X", "Y", "Z">>
LowerLetters ==
    <<"a", "b", "c", "d", "e", "f", "g", "h", "i", "j", "k", "l", "m",
      "n", "o", "p", "q", "r", "s", "t", "u", "v", "w", "x", "y", "z">>

LowerChar_toggle(c) ==
    IF \E k \in 1..26 : UpperLetters[k] = c
    THEN LowerLetters[CHOOSE k \in 1..26 : UpperLetters[k] = c]
    ELSE IF \E k \in 1..26 : LowerLetters[k] = c
         THEN UpperLetters[CHOOSE k \in 1..26 : LowerLetters[k] = c]
         ELSE c

LowerChar(c) ==
    IF \E k \in 1..26 : UpperLetters[k] = c
    THEN LowerLetters[CHOOSE k \in 1..26 : UpperLetters[k] = c]
    ELSE c

\* x.toLowerCase() for a string x
toLowerCase(x) == Str([k \in 1..Len(x.v) |-> LowerChar(x.v[k])])

\* x.toLowerCase() throws a TypeError: x is not a string (x is truthy at
\* every call site, so it is a number, true or an object)
toLowerCaseThrows(x) == x.t # "str"

(***************************************************************************)
(* The enum strings the code compares with.                                *)
(***************************************************************************)
s_yes == Str(<<"y", "e", "s">>)
s_no == Str(<<"n", "o">>)
s_resolved == Str(<<"r", "e", "s", "o", "l", "v", "e", "d">>)
s_unresolved == Str(<<"u", "n", "r", "e", "s", "o", "l", "v", "e", "d">>)
s_excellent == Str(<<"e", "x", "c", "e", "l", "l", "e", "n", "t">>)
s_good == Str(<<"g", "o", "o", "d">>)
s_fair == Str(<<"f", "a", "i", "r">>)
s_poor == Str(<<"p", "o", "o", "r">>)
s_correct == Str(<<"c", "o", "r", "r", "e", "c", "t">>)
s_partially_correct ==
    Str(<<"p", "a", "r", "t", "i", "a", "l", "l", "y", " ",
          "c", "o", "r", "r", "e", "c", "t">>)
s_wrong == Str(<<"w", "r", "o", "n", "g">>)
s_positive == Str(<<"p", "o", "s", "i", "t", "i", "v", "e">>)
s_neutral == Str(<<"n", "e", "u", "t", "r", "a", "l">>)
s_negative == Str(<<"n", "e", "g", "a", "t", "i", "v", "e">>)
s_frustrated == Str(<<"f", "r", "u", "s", "t", "r", "a", "t", "e", "d">>)
s_professional ==
    Str(<<"p", "r", "o", "f", "e", "s", "s", "i", "o", "n", "a", "l">>)
s_friendly == Str(<<"f", "r", "i", "e", "n", "d", "l", "y">>)
s_inappropriate ==
    Str(<<"i", "n", "a", "p", "p", "r", "o", "p", "r", "i", "a", "t", "e">>)
s_average == Str(<<"a", "v", "e", "r", "a", "g", "e">>)
s_bad == Str(<<"b", "a", "d">>)
s_true == Str(<<"t", "r", "u", "e">>)
s_false == Str(<<"f", "a", "l", "s", "e">>)

(***************************************************************************)
(* normalizeAnalysisResult (src/index.js 146-212).                         *)
(***************************************************************************)
\* if (o.f && typeof o.f === 'string') o.f = o.f.toLowerCase();
LowerGuarded(o, f) ==
    IF Truthy(Get(o, f)) /\ IsString(Get(o, f))
    THEN Put(o, f, toLowerCase(Get(o, f)))
    ELSE o

\* if (o.g?.f) o.g.f = o.g.f.toLowerCase();   (no typeof test)
LowerNested(o, g, f) ==
    IF Truthy(OptGet(o, g, f))
    THEN Put(o, g, Put(Get(o, g), f, toLowerCase(OptGet(o, g, f))))
    ELSE o

LowerNestedThrows(o, g, f) ==
    Truthy(OptGet(o, g, f)) /\ toLowerCaseThrows(OptGet(o, g, f))

\* the nested paths lower-cased without a typeof test, in source order
NestedPaths ==
    << <<"human_escalation", "is_escalated">>,
       <<"issue_status", "status">>,
       <<"escalation_necessity", "was_escalation_necessary">>,
       <<"bot_tone", "tone">>,
       <<"user_sentiment", "sentiment">>,
       <<"conversation_quality", "quality">> >>

\* the fields of response_quality lower-cased behind a typeof test
QualityFields ==
    <<"is_clear", "is_concise", "is_easy_to_understand", "is_relevant",
      "overall_quality_score">>

\* the block `if (normalized.response_quality) { ... }`
LowerQuality(o) ==
    LET q == Get(o, "response_quality")
        q1 == LowerGuarded(q, QualityFields[1])
        q2 == LowerGuarded(q1, QualityFields[2])
        q3 == LowerGuarded(q2, QualityFields[3])
        q4 == LowerGuarded(q3, QualityFields[4])
        q5 == LowerGuarded(q4, QualityFields[5])
    IN  IF Truthy(q) /\ q.t = "obj" THEN Put(o, "response_quality", q5) ELSE o

\* the call throws a TypeError: a nested enum field holds a truthy
\* non-string value
normalizeAnalysisResultThrows(result) ==
    /\ Truthy(result)
    /\ TypeofObject(result)
    /\ \E k \in 1..Len(NestedPaths) :
          LowerNestedThrows(result, NestedPaths[k][1], NestedPaths[k][2])

\* the value returned when the call does not throw
normalizeAnalysisResult(result) ==
    IF ~Truthy(result) \/ ~TypeofObject(result)
    THEN result
    ELSE
      LET normalized == Spread(result)
          n1 == LowerGuarded(normalized, "accuracy_level")
          n2 == LowerGuarded(n1, "is_chat_completed")
          n3 == LowerGuarded(n2, "overall_latency_classification")
          n4 == LowerNested(n3, NestedPaths[1][1], NestedPaths[1][2])
          n5 == LowerNested(n4, NestedPaths[2][1], NestedPaths[2][2])
          n6 == LowerNested(n5, NestedPaths[3][1], NestedPaths[3][2])
          n7 == LowerNested(n6, NestedPaths[4][1], NestedPaths[4][2])
          n8 == LowerNested(n7, NestedPaths[5][1], NestedPaths[5][2])
          n9 == LowerQuality(n8)
      IN  LowerNested(n9, NestedPaths[6][1], NestedPaths[6][2])

(***************************************************************************)
(* Arithmetic on numbers held in hundredths.                               *)
(***************************************************************************)
\* Math.round(x): the nearest integer to num/den, a tie going up (den > 0)
MathRound(num, den) == (2 * num + den) \div (2 * den)

\* Math.round(x * 100) / 100 for x = num/den hundredths: the result is again
\* a number of hundredths
Round2(num, den) == MathRound(num, den)

Max(a, b) == IF a >= b THEN a ELSE b

(***************************************************************************)
(* calculateSessionScore (src/index.js 215-398).  Factor scores are 0..100 *)
(* and weights are percentages, so score * weight is a number of           *)
(* hundredths of a point.                                                  *)
(***************************************************************************)
\* `x.toLowerCase() === s ? 100 : 0` behind `if (x)`
YesNoPoints(x, s) ==
    IF Truthy(x) /\ toLowerCase(x) = s THEN 100 ELSE 0

issueResolutionScore(analysis) ==
    YesNoPoints(OptGet(analysis, "issue_status", "status"), s_resolved)

escalationScore(analysis) ==
    YesNoPoints(OptGet(analysis, "human_escalation", "is_escalated"), s_no)

userExperienceScore(analysis) ==
    LET level == OptGet(analysis, "user_experience", "experience_level")
    IN  IF ~Truthy(level) THEN 0
        ELSE CASE level = N(5) -> 100
               [] level = N(4) -> 80
               [] level = N(3) -> 60
               [] level = N(2) -> 40
               [] level = N(1) -> 20
               [] OTHER -> 0

completionScore(analysis) ==
    YesNoPoints(Get(analysis, "is_chat_completed"), s_yes)

responseQualityScore(analysis) ==
    LET x == OptGet(analysis, "response_quality", "overall_quality_score")
    IN  IF ~Truthy(x) THEN 0
        ELSE LET quality == toLowerCase(x)
             IN  CASE quality = s_excellent -> 100
                   [] quality = s_good -> 75
                   [] quality = s_fair -> 50
                   [] quality = s_poor -> 25
                   [] OTHER -> 0

accuracyScore(analysis) ==
    LET x == Get(analysis, "accuracy_level")
    IN  IF ~Truthy(x) THEN 0
        ELSE LET accuracy == toLowerCase(x)
             IN  CASE accuracy = s_correct -> 100
                   [] accuracy = s_partially_correct -> 50
                   [] accuracy = s_wrong -> 0
                   [] OTHER -> 0

components == <<"is_clear", "is_concise", "is_easy_to_understand", "is_relevant">>

\* the sum the forEach accumulates over the four component flags
componentPoints(analysis) ==
    LET rq == Get(analysis, "response_quality")
        pt(k) == YesNoPoints(Get(rq, components[k]), s_yes)
    IN  IF ~Truthy(rq) THEN 0 ELSE pt(1) + pt(2) + pt(3) + pt(4)

sentimentScore(analysis) ==
    LET x == OptGet(analysis, "user_sentiment", "sentiment")
    IN  IF ~Truthy(x) THEN 0
        ELSE LET sentiment == toLowerCase(x)
             IN  CASE sentiment = s_positive -> 100
                   [] sentiment = s_neutral -> 70
                   [] sentiment = s_negative -> 30
                   [] sentiment = s_frustrated -> 0
                   [] OTHER -> 70

effortScore(analysis) ==
    LET level == OptGet(analysis, "user_effort", "effort_level")
    IN  IF ~Truthy(level) THEN 0
        ELSE CASE level = N(1) -> 100
               [] level = N(2) -> 80
               [] level = N(3) -> 60
               [] level = N(4) -> 40
               [] level = N(5) -> 20
               [] OTHER -> 0

toneScore(analysis) ==
    LET x == OptGet(analysis, "bot_tone", "tone")
    IN  IF ~Truthy(x) THEN 0
        ELSE LET tone == toLowerCase(x)
             IN  CASE tone = s_professional -> 100
                   [] tone = s_friendly -> 95
                   [] tone = s_neutral -> 70
                   [] tone = s_inappropriate -> 0
                   [] OTHER -> 70

\* the escalation-necessity penalty, in points; both tests are === on the
\* field as it is, without toLowerCase
escalationPenalty_either(analysis) ==
    IF \/ OptGet(analysis, "escalation_necessity", "was_escalation_necessary") = s_no
       \/ OptGet(analysis, "human_escalation", "is_escalated") = s_yes
    THEN -10 ELSE 0

escalationPenalty(analysis) ==
    IF /\ OptGet(analysis, "escalation_necessity", "was_escalation_necessary") = s_no
       /\ OptGet(analysis, "human_escalation", "is_escalated") = s_yes
    THEN -10 ELSE 0

\* the latency penalty, in points
latencyPenalty_flat(analysis) ==
    LET x == Get(analysis, "overall_latency_classification")
    IN  IF ~Truthy(x) THEN 0
        ELSE LET latency == toLowerCase(x)
             IN  CASE latency = s_average -> -2
                   [] latency = s_bad -> -2
                   [] OTHER -> 0

latencyPenalty(analysis) ==
    LET x == Get(analysis, "overall_latency_classification")
    IN  IF ~Truthy(x) THEN 0
        ELSE LET latency == toLowerCase(x)
             IN  CASE latency = s_average -> -2
                   [] latency = s_bad -> -5
                   [] OTHER -> 0

penalties(analysis) == escalationPenalty(analysis) + latencyPenalty(analysis)

\* scoreBreakdown, every entry in hundredths of a point
scoreBreakdown_overweight(analysis) ==
    [issueResolution |-> issueResolutionScore(analysis) * 30,
     escalationAvoidance |-> escalationScore(analysis) * 20,
     userExperience |-> userExperienceScore(analysis) * 15,
     chatCompletion |-> completionScore(analysis) * 10,
     responseQuality |-> responseQualityScore(analysis) * 8,
     accuracy |-> accuracyScore(analysis) * 7,
     responseComponents |-> (componentPoints(analysis) \div 4) * 5,
     userSentiment |-> sentimentScore(analysis) * 5,
     userEffort |-> effortScore(analysis) * 3,
     botTone |-> toneScore(analysis) * 2,
     penalties |-> penalties(analysis) * 100]

scoreBreakdown(analysis) ==
    [issueResolution |-> issueResolutionScore(analysis) * 25,
     escalationAvoidance |-> escalationScore(analysis) * 20,
     userExperience |-> userExperienceScore(analysis) * 15,
     chatCompletion |-> completionScore(analysis) * 10,
     responseQuality |-> responseQualityScore(analysis) * 8,
     accuracy |-> accuracyScore(analysis) * 7,
     responseComponents |-> (componentPoints(analysis) \div 4) * 5,
     userSentiment |-> sentimentScore(analysis) * 5,
     userEffort |-> effortScore(analysis) * 3,
     botTone |-> toneScore(analysis) * 2,
     penalties |-> penalties(analysis) * 100]

BreakdownKeys ==
    <<"issueResolution", "escalationAvoidance", "userExperience",
      "chatCompletion", "responseQuality", "accuracy", "responseComponents",
      "userSentiment", "userEffort", "botTone", "penalties">>

RECURSIVE SumKeys(_, _, _)
SumKeys(b, keys, k) ==
    IF k > Len(keys) THEN 0 ELSE b[keys[k]] + SumKeys(b, keys, k + 1)

\* the running totalScore after the penalties were added, in hundredths
rawTotalScore(analysis) == SumKeys(scoreBreakdown(analysis), BreakdownKeys, 1)

\* the fields a toLowerCase() is called on behind a truthiness test only
ScoredStrings(analysis) ==
    << OptGet(analysis, "issue_status", "status"),
       OptGet(analysis, "human_escalation", "is_escalated"),
       Get(analysis, "is_chat_completed"),
       OptGet(analysis, "response_quality", "overall_quality_score"),
       Get(analysis, "accuracy_level"),
       OptGet(analysis, "response_quality", components[1]),
       OptGet(analysis, "response_quality", components[2]),
       OptGet(analysis, "response_quality", components[3]),
       OptGet(analysis, "response_quality", components[4]),
       OptGet(analysis, "user_sentiment", "sentiment"),
       OptGet(analysis, "bot_tone", "tone"),
       Get(analysis, "overall_latency_classification") >>

\* the call throws a TypeError: one of those fields is truthy and no string
calculateSessionScoreThrows(analysis) ==
    /\ Truthy(analysis)
    /\ \E k \in 1..Len(ScoredStrings(analysis)) :
          /\ Truthy(ScoredStrings(analysis)[k])
          /\ toLowerCaseThrows(ScoredStrings(analysis)[k])

\* the value returned when the call does not throw: the number 0 for a falsy
\* argument, else { totalScore, breakdown }
calculateSessionScore(analysis) ==
    IF ~Truthy(analysis)
    THEN N(0)
    ELSE Obj([totalScore |->
                 Hundredths(Max(0, Round2(rawTotalScore(analysis), 1))),
              breakdown |->
                 Obj([k \in DOMAIN scoreBreakdown(analysis) |->
                        Hundredths(scoreBreakdown(analysis)[k])])])

(***************************************************************************)
(* calculateAggregateStats (src/index.js 401-509).  A counting object is a *)
(* sequence of [key, n] entries in insertion order, as Object.keys visits  *)
(* them; a successful result is a record [sessionId, analysis, score].     *)
(***************************************************************************)
s_object_Object ==
    Str(<<"[", "o", "b", "j", "e", "c", "t", " ",
          "O", "b", "j", "e", "c", "t", "]">>)

\* x.toString() for a boolean, a string, an object literal or a whole number
\* 0..99
toString(x) ==
    CASE x.t = "bool" -> IF x.v THEN s_true ELSE s_false
      [] x.t = "str" -> x
      [] x.t = "obj" -> s_object_Object
      [] x.t = "num" ->
           LET n == x.v \div 100
           IN  IF n < 10 THEN Str(<<Digits[n + 1]>>)
               ELSE Str(<<Digits[(n \div 10) + 1], Digits[(n % 10) + 1]>>)

\* x.toString() throws a TypeError: x is null (undefined is tested before)
toStringThrows(x) == x.t = "null"

\* stats.field[key] = (stats.field[key] || 0) + 1
CountKey(dist, key) ==
    IF \E k \in 1..Len(dist) : dist[k].key = key
    THEN [k \in 1..Len(dist) |->
            IF dist[k].key = key THEN [dist[k] EXCEPT !.n = @ + 1] ELSE dist[k]]
    ELSE Append(dist, [key |-> key, n |-> 1])

\* a counting object created with the given keys at 0
ZeroCounts(keys) == [k \in 1..Len(keys) |-> [key |-> keys[k], n |-> 0]]

\* the stats object before the forEach
InitialStats ==
    [chat_completion |-> ZeroCounts(<<s_yes, s_no>>),
     user_sentiment |-> <<>>,
     bot_tone |-> <<>>,
     anydesk_required |-> ZeroCounts(<<s_true, s_false>>),
     user_experience_levels |-> <<>>,
     user_effort_levels |-> <<>>,
     accuracy_levels |-> <<>>,
     issue_resolution |-> ZeroCounts(<<s_resolved, s_unresolved>>),
     human_escalation |-> ZeroCounts(<<s_yes, s_no>>)]

\* if (x) stats[field][x.toLowerCase()]++
CountLowered(stats, field, x) ==
    IF Truthy(x)
    THEN [stats EXCEPT ![field] = CountKey(@, toLowerCase(x))]
    ELSE stats

\* if (x) stats[field].push(x)
PushLevel(stats, field, x) ==
    IF Truthy(x) THEN [stats EXCEPT ![field] = Append(@, x)] ELSE stats

\* one turn of the forEach over analysisResults
AddToStats(stats, analysis) ==
    LET anydesk == OptGet(analysis, "conversation_quality", "is_anydesk_required")
        st1 == CountLowered(stats, "chat_completion",
                            Get(analysis, "is_chat_completed"))
        st2 == CountLowered(st1, "user_sentiment",
                            OptGet(analysis, "user_sentiment", "sentiment"))
        st3 == CountLowered(st2, "bot_tone", OptGet(analysis, "bot_tone", "tone"))
        st4 == IF anydesk # Undef
               THEN [st3 EXCEPT !.anydesk_required = CountKey(@, toString(anydesk))]
               ELSE st3
        st5 == PushLevel(st4, "user_experience_levels",
                         OptGet(analysis, "user_experience", "experience_level"))
        st6 == PushLevel(st5, "user_effort_levels",
                         OptGet(analysis, "user_effort", "effort_level"))
        st7 == CountLowered(st6, "accuracy_levels", Get(analysis, "accuracy_level"))
        st8 == CountLowered(st7, "issue_resolution",
                            OptGet(analysis, "issue_status", "status"))
    IN  CountLowered(st8, "human_escalation",
                     OptGet(analysis, "human_escalation", "is_escalated"))

\* the fields the forEach calls toLowerCase() on behind a truthiness test
AggregatedStrings(analysis) ==
    << Get(analysis, "is_chat_completed"),
       OptGet(analysis, "user_sentiment", "sentiment"),
       OptGet(analysis, "bot_tone", "tone"),
       Get(analysis, "accuracy_level"),
       OptGet(analysis, "issue_status", "status"),
       OptGet(analysis, "human_escalation", "is_escalated") >>

\* one turn of the forEach throws a TypeError: result.analysis is null or
\* undefined, a counted field is truthy and no string, or the anydesk flag
\* is null
AddToStatsThrows(analysis) ==
    \/ Nullish(analysis)
    \/ \E k \in 1..Len(AggregatedStrings(analysis)) :
          /\ Truthy(AggregatedStrings(analysis)[k])
          /\ toLowerCaseThrows(AggregatedStrings(analysis)[k])
    \/ toStringThrows(OptGet(analysis, "conversation_quality",
                             "is_anydesk_required"))

RECURSIVE FoldStats(_, _, _)
FoldStats(stats, analysisResults, k) ==
    IF k > Len(analysisResults) THEN stats
    ELSE FoldStats(AddToStats(stats, analysisResults[k].analysis),
                   analysisResults, k + 1)

RECURSIVE SumCounts(_, _)
SumCounts(dist, k) ==
    IF k > Len(dist) THEN 0 ELSE dist[k].n + SumCounts(dist, k + 1)

convertToPercentages_byObservations(dist, totalSessions) ==
    [k \in 1..Len(dist) |->
        [key |-> dist[k].key,
         pct |-> IF SumCounts(dist, 1) = 0 THEN 0
                 ELSE MathRound(dist[k].n * 100, SumCounts(dist, 1))]]

\* convertToPercentages: Math.round(count / totalSessions * 100) per key
convertToPercentages(dist, totalSessions) ==
    [k \in 1..Len(dist) |->
        [key |-> dist[k].key, pct |-> MathRound(dist[k].n * 100, totalSessions)]]

RECURSIVE SumLevels(_, _)
SumLevels(levels, k) ==
    IF k > Len(levels) THEN 0 ELSE levels[k].v + SumLevels(levels, k + 1)

\* the mean of the pushed numeric levels rounded to two decimals, in
\* hundredths; 0 when none was pushed
averageLevel(levels) ==
    IF Len(levels) > 0
    THEN Hundredths(Round2(SumLevels(levels, 1), Len(levels)))
    ELSE N(0)

calculateAggregateStatsThrows(analysisResults) ==
    \E k \in 1..Len(analysisResults) :
        AddToStatsThrows(analysisResults[k].analysis)

EmptyAggregateStats_keyless ==
    [average_chat_completion_rate |-> <<>>,
     average_user_sentiment_distribution |-> <<>>,
     average_bot_tone_distribution |-> <<>>,
     average_anydesk_required |-> <<>>,
     average_user_experience_level |-> N(0),
     average_user_effort_level |-> N(0),
     average_response_accuracy |-> <<>>,
     average_issue_resolution_rate |-> <<>>,
     average_human_escalation_rate |-> <<>>]

\* the aggregate of the empty batch
EmptyAggregateStats ==
    [average_chat_completion_rate |->
        <<[key |-> s_yes, pct |-> 0], [key |-> s_no, pct |-> 0]>>,
     average_user_sentiment_distribution |-> <<>>,
     average_bot_tone_distribution |-> <<>>,
     average_anydesk_required |->
        <<[key |-> s_true, pct |-> 0], [key |-> s_false, pct |-> 0]>>,
     average_user_experience_level |-> N(0),
     average_user_effort_level |-> N(0),
     average_response_accuracy |-> <<>>,
     average_issue_resolution_rate |->
        <<[key |-> s_resolved, pct |-> 0], [key |-> s_unresolved, pct |-> 0]>>,
     average_human_escalation_rate |->
        <<[key |-> s_yes, pct |-> 0], [key |-> s_no, pct |-> 0]>>]

\* the value returned when the call does not throw
calculateAggregateStats(analysisResults) ==
    IF Len(analysisResults) = 0
    THEN EmptyAggregateStats
    ELSE
      LET totalSessions == Len(analysisResults)
          stats == FoldStats(InitialStats, analysisResults, 1)
      IN  [average_chat_completion_rate |->
              convertToPercentages(stats.chat_completion, totalSessions),
           average_user_sentiment_distribution |->
              convertToPercentages(stats.user_sentiment, totalSessions),
           average_bot_tone_distribution |->
              convertToPercentages(stats.bot_tone, totalSessions),
           average_anydesk_required |->
              convertToPercentages(stats.anydesk_required, totalSessions),
           average_user_experience_level |->
              averageLevel(stats.user_experience_levels),
           average_user_effort_level |->
              averageLevel(stats.user_effort_levels),
           average_response_accuracy |->
              convertToPercentages(stats.accuracy_levels, totalSessions),
           average_issue_resolution_rate |->
              convertToPercentages(stats.issue_resolution, totalSessions),
           average_human_escalation_rate |->
              convertToPercentages(stats.human_escalation, totalSessions)]

(***************************************************************************)
(* Inputs of the pipeline: request bodies, stored sessions, responses of   *)
(* the external analysis service.                                          *)
(***************************************************************************)
d_2025_03_20 == Str(<<"2", "0", "2", "5", "-", "0", "3", "-", "2", "0">>)
d_2025_13_45 == Str(<<"2", "0", "2", "5", "-", "1", "3", "-", "4", "5">>)
d_not_a_date == Str(<<"n", "o", "t", "-", "a", "-", "d", "a", "t", "e">>)

\* req.body of POST /api/analyze-conversations
RequestBodies ==
    << [fromDate |-> d_2025_03_20, toDate |-> d_2025_03_20],
       [fromDate |-> Undef, toDate |-> d_2025_03_20],
       [fromDate |-> d_2025_03_20, toDate |-> Str(<<>>)],
       [fromDate |-> d_not_a_date, toDate |-> d_2025_03_20],
       [fromDate |-> d_2025_03_20, toDate |-> d_2025_13_45] >>

IsDigit(c) == \E k \in 1..10 : Digits[k] = c
DigitVal(c) == (CHOOSE k \in 1..10 : Digits[k] = c) - 1
TwoDigits(s, k) == DigitVal(s[k]) * 10 + DigitVal(s[k + 1])

\* the shape NNNN-NN-NN of a string value
IsoShaped(x) ==
    /\ x.t = "str"
    /\ Len(x.v) = 10
    /\ \A k \in {1, 2, 3, 4, 6, 7, 9, 10} : IsDigit(x.v[k])
    /\ x.v[5] = "-"
    /\ x.v[8] = "-"

\* new Date(x) is an Invalid Date, for a string x that is either NNNN-NN-NN
\* or no date in any notation: the date-only form needs a month 1..12 and a
\* day 1..31
InvalidDate(x) ==
    ~ (/\ IsoShaped(x)
       /\ TwoDigits(x.v, 6) \in 1..12
       /\ TwoDigits(x.v, 9) \in 1..31)

\* an ObjectId with the given hex digits
Oid(s) == [t |-> "oid", v |-> s]

\* x.toString() for an ObjectId: its hex string
oidToString(x) == Str(x.v)

id_a == <<"a", "1">>
id_b == <<"b", "2">>
id_c == <<"c", "3">>

\* documents of the chat_sessions collection, by the identifier fields
\* they carry
SessionShapes ==
    << EmptyObj,
       Obj([_id |-> Oid(id_a), id |-> Str(id_b), session_id |-> Str(id_c)]),
       Obj([id |-> Str(id_b), session_id |-> Str(id_c)]),
       Obj([session_id |-> Str(id_c)]) >>

\* all lists of at most n documents
RECURSIVE SessionLists(_)
SessionLists(n) ==
    IF n = 0 THEN {<<>>}
    ELSE SessionLists(n - 1) \cup
         {Append(l, SessionShapes[k]) :
            l \in {m \in SessionLists(n - 1) : Len(m) = n - 1},
            k \in 1..Len(SessionShapes)}

\* the record of the spec's scoring scenario: 25 + 20 + 10 points
r_scenario ==
    Obj([issue_status |-> Obj([status |-> Str(<<"R", "e", "s", "o", "l", "v", "e", "d">>)]),
         human_escalation |-> Obj([is_escalated |-> Str(<<"N", "o">>)]),
         is_chat_completed |-> Str(<<"Y", "E", "S">>)])
\* one component flag only: 1.25 points
r_clear == Obj([response_quality |-> Obj([is_clear |-> s_yes])])
\* a boolean where a string is expected
r_bool_completed == Obj([is_chat_completed |-> Bool(TRUE)])
\* a null remote-assistance flag
r_null_anydesk == Obj([conversation_quality |-> Obj([is_anydesk_required |-> Null])])

\* response.data of a call the service answered with a 2xx status
ResponseDatas ==
    << Obj([result |-> r_scenario]),
       Obj([result |-> r_clear]),
       Obj([result |-> r_bool_completed]),
       Obj([result |-> r_null_anydesk]),
       Obj([result |-> N(0)]),
       EmptyObj >>

\* error.message of a call axios rejected (timeout, transport error, non-2xx
\* status: one message stands for all, the handler only copies it)
RejectMessages == <<"timeout of 300000ms exceeded">>

(***************************************************************************)
(* State of one run of POST /api/analyze-conversations                     *)
(* (src/index.js 512-657) and of the shared MongoDB handle (15-29).        *)
(***************************************************************************)
VARIABLES
    pc,               \* where the handler stands: "start", "connecting",
                      \* "querying", "loop", "calling", "pacing", "done"
    req,              \* req.body
    mongoClient,      \* the module-level handle: "null" or "client"
    connectState,     \* connect() of that client: "none", "pending", "ok", "failed"
    sessions,         \* the documents getChatSessions returned
    i,                \* the loop index
    analysisResults,  \* the successful results
    failedSessions,   \* the failed entries
    processedCount,
    inFlight,         \* indices of the sessions whose analysis call is pending
    events,           \* history: analysis calls issued and pacing delays started
    storeOps,         \* history: connect() and find() calls issued, and
                      \* "found" when find() delivered the documents
    res               \* the response sent, or NoResponse

\* State of one direct call of a pure function (the scorer, the normalizer,
\* the aggregator) on an input of its own; idle during a pipeline run.
VARIABLES
    fnPc,             \* "idle", "ready", "returned", "threw"
    fnArg0,           \* the argument as the caller built it
    fnArg,            \* the caller's argument object as it is now
    fnRets            \* the values returned so far, in call order

fnVars == <<fnPc, fnArg0, fnArg, fnRets>>

\* Concurrent callers of connectToMongoDB (src/index.js 17-29); none during
\* a single pipeline run.
VARIABLES
    callerPc,         \* per caller: "idle", "awaiting", "returned", "threw"
    received          \* per caller: connectState of the client at the moment
                      \* it was returned to the caller, "none" before

connVars == <<callerPc, received>>

\* The sampling variant (src/unnamed/part_000): getChatSessionsByDate and
\* getSessionsAndProcessWithAgent.
VARIABLES
    runPc,            \* "off", "start", "connecting", "querying", "selecting",
                      \* "loop", "workflow", "agent", "done"
    matchingSessions, \* the documents find() delivered, by _id
    usedIndices,      \* the indices drawn so far (0-based)
    selectedSessions, \* the documents selected so far
    returnedSessions, \* what getChatSessionsByDate returned
    runI,             \* the loop index of the run
    sessionResult,    \* the sessionResult object of the current iteration
    session_results,  \* completeResults.session_results
    serviceCalls,     \* history: workflow and agent invocations
    runOutcome        \* the value the run returned, or NoOutcome

sampleVars ==
    <<runPc, matchingSessions, usedIndices, selectedSessions, returnedSessions,
      runI, sessionResult, session_results, serviceCalls, runOutcome>>

pipelineVars ==
    <<pc, req, mongoClient, connectState, sessions, i, analysisResults,
      failedSessions, processedCount, inFlight, events, storeOps, res>>

vars == <<pc, req, mongoClient, connectState, sessions, i, analysisResults,
          failedSessions, processedCount, inFlight, events, storeOps, res,
          fnPc, fnArg0, fnArg, fnRets, callerPc, received,
          runPc, matchingSessions, usedIndices, selectedSessions,
          returnedSessions, runI, sessionResult, session_results,
          serviceCalls, runOutcome>>

MaxCallers == 4
Callers == 1..MaxCallers

\* nobody is calling connectToMongoDB
ConnIdle ==
    /\ callerPc = [c \in Callers |-> "idle"]
    /\ received = [c \in Callers |-> "none"]

NoOutcome == [success |-> "none"]
NoSessionResult == [status |-> "none"]

\* the sampling variant is not running
SampleOff ==
    /\ runPc = "off"
    /\ matchingSessions = <<>>
    /\ usedIndices = {}
    /\ selectedSessions = <<>>
    /\ returnedSessions = <<>>
    /\ runI = 0
    /\ sessionResult = NoSessionResult
    /\ session_results = <<>>
    /\ serviceCalls = <<>>
    /\ runOutcome = NoOutcome

\* no direct call is going on
FnIdle ==
    /\ fnPc = "idle"
    /\ fnArg0 = [t |-> "undef", v |-> 0]
    /\ fnArg = [t |-> "undef", v |-> 0]
    /\ fnRets = <<>>

NoResponse == [status |-> 0]

Init ==
    /\ pc = "start"
    /\ req \in {RequestBodies[k] : k \in 1..Len(RequestBodies)}
    /\ mongoClient = "null"
    /\ connectState = "none"
    /\ sessions = <<>>
    /\ i = 0
    /\ analysisResults = <<>>
    /\ failedSessions = <<>>
    /\ processedCount = 0
    /\ inFlight = {}
    /\ events = <<>>
    /\ storeOps = <<>>
    /\ res = NoResponse
    /\ FnIdle
    /\ ConnIdle
    /\ SampleOff

\* the outer catch: res.status(500).json({ success: false, error, ... })
CriticalFailure(message) ==
    [status |-> 500, success |-> FALSE, error |-> message]

\* variant: the three fields consulted in the opposite order
sessionIdOf_reversed(session) ==
    LET oid == Get(session, "_id")
        a == IF Nullish(oid) THEN Undef ELSE oidToString(oid)
        b == Get(session, "id")
        c == Get(session, "session_id")
    IN  IF Truthy(c) THEN c ELSE IF Truthy(b) THEN b ELSE a

\* session._id?.toString() || session.id || session.session_id
sessionIdOf(session) ==
    LET oid == Get(session, "_id")
        a == IF Nullish(oid) THEN Undef ELSE oidToString(oid)
        b == Get(session, "id")
        c == Get(session, "session_id")
    IN  IF Truthy(a) THEN a ELSE IF Truthy(b) THEN b ELSE c

\* the request is refused for a missing date: !fromDate || !toDate
MissingDate(body) == ~Truthy(body.fromDate) \/ ~Truthy(body.toDate)

\* The handler up to its first await: the presence check, then
\* getChatSessions -> connectToMongoDB, which creates the client and starts
\* connect() when there is no handle yet, and goes on to find() otherwise.
ReceiveRequest ==
    /\ pc = "start"
    /\ IF MissingDate(req)
       THEN /\ res' = [status |-> 400,
                       error |-> "Both fromDate and toDate are required"]
            /\ pc' = "done"
            /\ UNCHANGED <<mongoClient, connectState, storeOps>>
       ELSE IF mongoClient = "null"
       THEN /\ mongoClient' = "client"
            /\ connectState' = "pending"
            /\ storeOps' = Append(storeOps, "connect")
            /\ pc' = "connecting"
            /\ res' = res
       ELSE /\ storeOps' = Append(storeOps, "find")
            /\ pc' = "querying"
            /\ UNCHANGED <<mongoClient, connectState, res>>
    /\ UNCHANGED <<connVars, sampleVars, fnVars, req, sessions, i, analysisResults, failedSessions,
                   processedCount, inFlight, events>>

\* connect() resolves: connectToMongoDB returns the client and
\* getChatSessions issues collection.find(query).toArray()
ConnectSucceeds ==
    /\ pc = "connecting"
    /\ connectState' = "ok"
    /\ storeOps' = Append(storeOps, "find")
    /\ pc' = "querying"
    /\ UNCHANGED <<connVars, sampleVars, fnVars, req, mongoClient, sessions, i, analysisResults,
                   failedSessions, processedCount, inFlight, events, res>>

\* connect() rejects: the error is rethrown up to the outer catch; the
\* handle keeps the client that failed to connect
ConnectFails ==
    /\ pc = "connecting"
    /\ connectState' = "failed"
    /\ res' = CriticalFailure("connect ECONNREFUSED")
    /\ pc' = "done"
    /\ UNCHANGED <<connVars, sampleVars, fnVars, req, mongoClient, sessions, i, analysisResults,
                   failedSessions, processedCount, inFlight, events, storeOps>>

\* variant: zero sessions answered as a failure
EmptyReport_notFound ==
    [status |-> 404,
     success |-> FALSE,
     message |-> "No sessions found for the specified date range"]

\* the answer for zero sessions
EmptyReport ==
    [status |-> 200,
     success |-> TRUE,
     message |-> "No sessions found for the specified date range",
     data |-> [totalSessions |-> 0,
               processedSessions |-> 0,
               failedSessions |-> 0,
               analysisResults |-> <<>>,
               overallScore |-> N(0),
               aggregateStats |-> calculateAggregateStats(<<>>)]]

\* find() resolves with the matching documents; a range built from an
\* Invalid Date matches no document.  Zero sessions are answered at once.
QuerySucceeds ==
    /\ pc = "querying"
    /\ \E found \in SessionLists(MaxSessions) :
          /\ (InvalidDate(req.fromDate) \/ InvalidDate(req.toDate)) => found = <<>>
          /\ sessions' = found
          /\ storeOps' = Append(storeOps, "found")
          /\ IF Len(found) = 0
             THEN res' = EmptyReport /\ pc' = "done"
             ELSE res' = res /\ pc' = "loop"
    /\ UNCHANGED <<connVars, sampleVars, fnVars, req, mongoClient, connectState, i, analysisResults,
                   failedSessions, processedCount, inFlight, events>>

\* variant: a query error swallowed and answered as an empty batch
QueryFails_swallowed ==
    /\ pc = "querying"
    /\ res' = EmptyReport
    /\ pc' = "done"
    /\ UNCHANGED <<connVars, sampleVars, fnVars, req, mongoClient, connectState, sessions, i,
                   analysisResults, failedSessions, processedCount, inFlight,
                   events, storeOps>>

\* find() rejects: rethrown by getChatSessions up to the outer catch
QueryFails ==
    /\ pc = "querying"
    /\ res' = CriticalFailure("query failed")
    /\ pc' = "done"
    /\ UNCHANGED <<connVars, sampleVars, fnVars, req, mongoClient, connectState, sessions, i,
                   analysisResults, failedSessions, processedCount, inFlight,
                   events, storeOps>>

(***************************************************************************)
(* The processing loop (src/index.js 558-599).                             *)
(***************************************************************************)
\* variant: unshift instead of push
PushResult_unshift(results, r) == <<r>> \o results

\* analysisResults.push(r)
PushResult(results, r) == Append(results, r)

\* the test that guards the pacing delay at the end of an iteration
NeedsPacing(idx, n) == idx < n - 1

\* the entry pushed for a session without identifier
NoIdFailure(idx) == [index |-> idx, error |-> "No valid session ID"]

\* the entry pushed by the per-session catch
CallFailure(sessionId, message, idx) ==
    [sessionId |-> sessionId, error |-> message, index |-> idx]

\* the end of an iteration that went through the try/catch: start the
\* one-second delay unless this was the last session
EndOfIteration ==
    IF NeedsPacing(i, Len(sessions))
    THEN /\ events' = Append(events, [e |-> "delay", index |-> i])
         /\ pc' = "pacing"
         /\ i' = i
    ELSE /\ events' = events
         /\ pc' = "loop"
         /\ i' = i + 1

\* variant: a session without identifier skipped without a failed entry
SkipSession_unrecorded ==
    /\ pc = "loop"
    /\ i < Len(sessions)
    /\ ~Truthy(sessionIdOf(sessions[i + 1]))
    /\ i' = i + 1
    /\ UNCHANGED <<connVars, sampleVars, fnVars, pc, req, mongoClient, connectState, sessions,
                   analysisResults, failedSessions, processedCount, inFlight,
                   events, storeOps, res>>

\* an iteration for a session without identifier: push the failure and
\* `continue`, which skips the delay
SkipSession ==
    /\ pc = "loop"
    /\ i < Len(sessions)
    /\ ~Truthy(sessionIdOf(sessions[i + 1]))
    /\ failedSessions' = Append(failedSessions, NoIdFailure(i))
    /\ i' = i + 1
    /\ UNCHANGED <<connVars, sampleVars, fnVars, pc, req, mongoClient, connectState, sessions,
                   analysisResults, processedCount, inFlight, events,
                   storeOps, res>>

\* an iteration for a session with an identifier, up to the await of
\* analyzeSession: the request is posted
StartCall ==
    /\ pc = "loop"
    /\ i < Len(sessions)
    /\ Truthy(sessionIdOf(sessions[i + 1]))
    /\ inFlight' = inFlight \cup {i}
    /\ events' = Append(events, [e |-> "call", index |-> i,
                                 id |-> sessionIdOf(sessions[i + 1])])
    /\ pc' = "calling"
    /\ UNCHANGED <<connVars, sampleVars, fnVars, req, mongoClient, connectState, sessions, i,
                   analysisResults, failedSessions, processedCount,
                   storeOps, res>>

\* the message of the error the try block ends with for response.data, or
\* "" when it runs to its end: analyzeSession reads response.data.result,
\* then normalizeAnalysisResult and calculateSessionScore run
TryBlockError(data) ==
    IF Nullish(data)
    THEN "Cannot read properties of undefined (reading 'result')"
    ELSE IF normalizeAnalysisResultThrows(Get(data, "result"))
    THEN "normalized.toLowerCase is not a function"
    ELSE IF calculateSessionScoreThrows(normalizeAnalysisResult(Get(data, "result")))
    THEN "analysis.toLowerCase is not a function"
    ELSE ""

\* the record pushed for a session whose try block ran to its end
SuccessResult(sessionId, data, idx) ==
    LET normalizedResult == normalizeAnalysisResult(Get(data, "result"))
    IN  [sessionId |-> sessionId,
         analysis |-> normalizedResult,
         score |-> calculateSessionScore(normalizedResult),
         index |-> idx]    \* history: the position of the session

\* the service answers with a 2xx status and the body `data`
CallResolves ==
    /\ pc = "calling"
    /\ \E k \in 1..Len(ResponseDatas) :
          LET data == ResponseDatas[k]
              sessionId == sessionIdOf(sessions[i + 1])
          IN  IF TryBlockError(data) = ""
              THEN /\ analysisResults' =
                         PushResult(analysisResults, SuccessResult(sessionId, data, i))
                   /\ processedCount' = processedCount + 1
                   /\ failedSessions' = failedSessions
              ELSE /\ failedSessions' =
                         Append(failedSessions,
                                CallFailure(sessionId, TryBlockError(data), i))
                   /\ UNCHANGED <<analysisResults, processedCount>>
    /\ inFlight' = inFlight \ {i}
    /\ EndOfIteration
    /\ UNCHANGED <<connVars, sampleVars, fnVars, req, mongoClient, connectState, sessions, storeOps, res>>

\* the call fails: timeout, transport error or non-2xx status
CallRejects ==
    /\ pc = "calling"
    /\ \E k \in 1..Len(RejectMessages) :
          failedSessions' =
             Append(failedSessions,
                    CallFailure(sessionIdOf(sessions[i + 1]), RejectMessages[k], i))
    /\ inFlight' = inFlight \ {i}
    /\ EndOfIteration
    /\ UNCHANGED <<connVars, sampleVars, fnVars, req, mongoClient, connectState, sessions, analysisResults,
                   processedCount, storeOps, res>>

\* the one-second timer fires: next iteration
DelayElapses ==
    /\ pc = "pacing"
    /\ i' = i + 1
    /\ pc' = "loop"
    /\ UNCHANGED <<connVars, sampleVars, fnVars, req, mongoClient, connectState, sessions, analysisResults,
                   failedSessions, processedCount, inFlight, events,
                   storeOps, res>>

(***************************************************************************)
(* Finalization and report (src/index.js 601-656).                         *)
(***************************************************************************)
\* sum + result.score.totalScore over the results, in hundredths; NaN as
\* soon as a score has no totalScore
RECURSIVE SumTotalScores(_, _)
SumTotalScores(results, k) ==
    IF k > Len(results) THEN N(0)
    ELSE LET x == Get(results[k].score, "totalScore")
             rest == SumTotalScores(results, k + 1)
         IN  IF x.t # "num" \/ rest.t # "num" THEN NaN
             ELSE Hundredths(x.v + rest.v)

\* Math.round(overallScore * 100) / 100 of the report
reportedOverallScore(results) ==
    LET totalScore == SumTotalScores(results, 1)
    IN  IF Len(results) > 0
        THEN IF totalScore.t = "nan" THEN NaN
             ELSE Hundredths(Round2(totalScore.v, Len(results)))
        ELSE N(0)

\* (executionTime and the per-result timestamp are clock readings and are
\* left out; the message is kept without its counts)
BatchReport ==
    [status |-> 200,
     success |-> TRUE,
     message |-> "Analysis completed",
     data |-> [totalSessions |-> Len(sessions),
               processedSessions |-> processedCount,
               failedSessions |-> Len(failedSessions),
               analysisResults |-> analysisResults,
               overallScore |-> reportedOverallScore(analysisResults),
               aggregateStats |-> calculateAggregateStats(analysisResults),
               dateRange |-> req,
               failedSessionDetails |-> failedSessions]]

\* the loop is over: overall score, aggregate and report; an exception of
\* calculateAggregateStats lands in the outer catch
Finalize ==
    /\ pc = "loop"
    /\ i >= Len(sessions)
    /\ res' = IF calculateAggregateStatsThrows(analysisResults)
              THEN CriticalFailure("TypeError in calculateAggregateStats")
              ELSE BatchReport
    /\ pc' = "done"
    /\ UNCHANGED <<connVars, sampleVars, fnVars, req, mongoClient, connectState, sessions, i,
                   analysisResults, failedSessions, processedCount, inFlight,
                   events, storeOps>>

Next ==
    \/ ReceiveRequest
    \/ ConnectSucceeds
    \/ ConnectFails
    \/ QuerySucceeds
    \/ QueryFails
    \/ SkipSession
    \/ StartCall
    \/ CallResolves
    \/ CallRejects
    \/ DelayElapses
    \/ Finalize

Spec == Init /\ [][Next]_vars

(***************************************************************************)
(* Vocabulary of the properties.                                           *)
(***************************************************************************)
\* getChatSessions returned its documents to the handler
Retrieved == \E k \in 1..Len(storeOps) : storeOps[k] = "found"

\* the session store was accessed: a connection or a query was issued
StoreAccessed == Len(storeOps) > 0

\* the run is over
Done == pc = "done"

\* the response is a success report
SuccessReport == res.status = 200 /\ res.success = TRUE

\* the response is the single top-level failure
TopLevelFailure ==
    res.status = 500 /\ res.success = FALSE /\ DOMAIN res = {"status", "success", "error"}

\* positions of the analysis calls and of the pacing delays in the history
CallEvents == {k \in 1..Len(events) : events[k].e = "call"}
DelayEvents == {k \in 1..Len(events) : events[k].e = "delay"}

(***************************************************************************)
(* C1.  Once session retrieval has succeeded the run always ends with a    *)
(* success report: no per-session outcome, surfacing in the loop or in the *)
(* finalization, turns the run into a top-level failure.                   *)
(***************************************************************************)
C1_RetrievedRunEndsInSuccess ==
    (Done /\ Retrieved) => SuccessReport

(***************************************************************************)
(* C2.  A 2xx response that is malformed (no `result` key, or a `result`   *)
(* that is no record) makes a failed entry and is not counted as           *)
(* processed: so every successful result holds a record as its analysis,   *)
(* and processedCount counts such results only.                            *)
(***************************************************************************)
C2_MalformedResponseIsFailure ==
    /\ \A k \in 1..Len(analysisResults) : analysisResults[k].analysis.t = "obj"
    /\ processedCount =
          Cardinality({k \in 1..Len(analysisResults) :
                          analysisResults[k].analysis.t = "obj"})

(***************************************************************************)
(* C3.  In every report of a completed run each retrieved session appears  *)
(* in exactly one of analysisResults and failedSessionDetails;             *)
(* processed + failed = total, processed is the number of successful       *)
(* results and failed the number of failed entries.                        *)
(***************************************************************************)
\* the failed entries of a report (the empty report lists none)
FailedDetails(data) ==
    IF "failedSessionDetails" \in DOMAIN data THEN data.failedSessionDetails ELSE <<>>

\* how many entries of the sequence are about the session at position idx
Occurrences(entries, idx) ==
    Cardinality({k \in 1..Len(entries) : entries[k].index = idx})

C3_ReportPartitionsSessions ==
    (Done /\ SuccessReport) =>
        LET data == res.data
        IN  /\ data.totalSessions = Len(sessions)
            /\ data.processedSessions + data.failedSessions = data.totalSessions
            /\ data.processedSessions = Len(data.analysisResults)
            /\ data.failedSessions = Len(FailedDetails(data))
            /\ \A idx \in 0..(Len(sessions) - 1) :
                  Occurrences(data.analysisResults, idx)
                     + Occurrences(FailedDetails(data), idx) = 1

\* three sessions, the second call timed out: processed 2, failed 1, and the
\* failed entry names the session and the reason
C3_Witness ==
    /\ Done /\ SuccessReport
    /\ res.data.totalSessions = 3
    /\ res.data.processedSessions = 2
    /\ res.data.failedSessions = 1
    /\ res.data.failedSessionDetails[1].index = 1
    /\ res.data.failedSessionDetails[1].error = RejectMessages[1]
    /\ res.data.failedSessionDetails[1].sessionId = sessionIdOf(sessions[2])

(***************************************************************************)
(* C4.  At most one analysis call is in flight at any time, calls are      *)
(* issued in retrieval order, a call is issued only when no earlier call   *)
(* is pending, and the successful results are kept in retrieval order.     *)
(***************************************************************************)
C4_OneCallAtATimeInOrder ==
    /\ Cardinality(inFlight) <= 1
    /\ \A j, k \in CallEvents : j < k => events[j].index < events[k].index
    /\ \A k \in CallEvents : \A idx \in inFlight : idx >= events[k].index
    /\ \A j, k \in 1..Len(analysisResults) :
          j < k => analysisResults[j].index < analysisResults[k].index

\* a third call is pending after two calls returned successful results
C4_Witness ==
    /\ Cardinality(CallEvents) = 3
    /\ inFlight = {2}
    /\ Len(analysisResults) = 2

(***************************************************************************)
(* C5.  In every batch a pacing delay occurs between every two consecutive *)
(* analysis calls, none before the first call and none after the last      *)
(* call, also when sessions without identifier are skipped.                *)
(***************************************************************************)
C5_PacingOnlyBetweenCalls ==
    Done =>
        /\ \A j, k \in CallEvents :
              j < k => \E d \in DelayEvents : j < d /\ d < k
        /\ \A d \in DelayEvents : \E j \in CallEvents : j < d
        /\ \A d \in DelayEvents : \E k \in CallEvents : d < k

(***************************************************************************)
(* C6.  A fetch-stage failure (connection or query error) ends the run     *)
(* with the single top-level failure response: no analysis call was made   *)
(* and the response carries no counts, results or aggregate.               *)
(***************************************************************************)
C6_FetchFailureIsFatal ==
    (Done /\ StoreAccessed /\ ~Retrieved) =>
        /\ TopLevelFailure
        /\ events = <<>>
        /\ analysisResults = <<>>
        /\ failedSessions = <<>>

\* the connection succeeded and the query then failed
C6_Witness ==
    /\ Done
    /\ storeOps = <<"connect", "find">>
    /\ res.status = 500

(***************************************************************************)
(* C7.  Zero retrieved sessions: the run completes at once with a success  *)
(* report whose counts and overall score are 0, whose results are empty    *)
(* and whose aggregate is the empty-input aggregate; no analysis call is   *)
(* made and no pacing delay is started.                                    *)
(***************************************************************************)
\* every percentage of the distribution is 0
AllZero(dist) == \A k \in 1..Len(dist) : dist[k].pct = 0

C7_EmptyBatchReport ==
    (Done /\ Retrieved /\ Len(sessions) = 0) =>
        /\ res.status = 200
        /\ res.success = TRUE
        /\ res.data.totalSessions = 0
        /\ res.data.processedSessions = 0
        /\ res.data.failedSessions = 0
        /\ res.data.overallScore = N(0)
        /\ res.data.analysisResults = <<>>
        /\ res.data.aggregateStats.average_user_sentiment_distribution = <<>>
        /\ res.data.aggregateStats.average_bot_tone_distribution = <<>>
        /\ res.data.aggregateStats.average_response_accuracy = <<>>
        /\ Len(res.data.aggregateStats.average_chat_completion_rate) = 2
        /\ AllZero(res.data.aggregateStats.average_chat_completion_rate)
        /\ Len(res.data.aggregateStats.average_anydesk_required) = 2
        /\ AllZero(res.data.aggregateStats.average_anydesk_required)
        /\ Len(res.data.aggregateStats.average_issue_resolution_rate) = 2
        /\ AllZero(res.data.aggregateStats.average_issue_resolution_rate)
        /\ Len(res.data.aggregateStats.average_human_escalation_rate) = 2
        /\ AllZero(res.data.aggregateStats.average_human_escalation_rate)
        /\ res.data.aggregateStats.average_user_experience_level = N(0)
        /\ res.data.aggregateStats.average_user_effort_level = N(0)
        /\ events = <<>>
        /\ inFlight = {}
        /\ i = 0

\* the query for a well-formed range found nothing
C7_Witness ==
    /\ Done
    /\ Retrieved
    /\ sessions = <<>>
    /\ req.fromDate = d_2025_03_20
    /\ req.toDate = d_2025_03_20
    /\ res.status = 200

(***************************************************************************)
(* C8.  A malformed date string (no valid YYYY-MM-DD calendar date) is     *)
(* rejected as a validation failure before the session store is accessed:  *)
(* no connection and no query is issued for such a request.                *)
(***************************************************************************)
FourDigits(s, k) == TwoDigits(s, k) * 100 + TwoDigits(s, k + 2)

LeapYear(y) == (y % 4 = 0 /\ y % 100 # 0) \/ y % 400 = 0

DaysInMonth(y, m) ==
    IF m = 2 THEN (IF LeapYear(y) THEN 29 ELSE 28)
    ELSE IF m \in {4, 6, 9, 11} THEN 30 ELSE 31

\* x is a string naming a day of the calendar as YYYY-MM-DD
ValidCalendarDate(x) ==
    /\ IsoShaped(x)
    /\ TwoDigits(x.v, 6) \in 1..12
    /\ TwoDigits(x.v, 9) \in 1..DaysInMonth(FourDigits(x.v, 1), TwoDigits(x.v, 6))

MalformedDate(x) == x.t = "str" /\ ~ValidCalendarDate(x)

C8_MalformedDateRejectedBeforeStore ==
    (MalformedDate(req.fromDate) \/ MalformedDate(req.toDate)) =>
        /\ ~StoreAccessed
        /\ Done => res.status = 400

(***************************************************************************)
(* C9.  The identifier of a session is the first available of _id, id and  *)
(* session_id; a session with none of them gets a failed entry with a      *)
(* reason and no analysis call, and the loop goes on to the next session.  *)
(***************************************************************************)
HasField(session, f) == f \in DOMAIN session.v

\* the positions the loop has gone past
Handled == {idx \in 0..(Len(sessions) - 1) : idx < i}

C9_FirstAvailableIdentifier ==
    /\ \A k \in CallEvents :
          LET session == sessions[events[k].index + 1]
          IN  /\ HasField(session, "_id") =>
                    events[k].id = Str(session.v["_id"].v)
              /\ (~HasField(session, "_id") /\ HasField(session, "id")) =>
                    events[k].id = session.v["id"]
              /\ (~HasField(session, "_id") /\ ~HasField(session, "id")) =>
                    (HasField(session, "session_id")
                        /\ events[k].id = session.v["session_id"])
    /\ \A idx \in Handled :
          (DOMAIN sessions[idx + 1].v) \cap {"_id", "id", "session_id"} = {} =>
              /\ \E k \in 1..Len(failedSessions) :
                    /\ failedSessions[k].index = idx
                    /\ failedSessions[k].error = "No valid session ID"
              /\ \A k \in CallEvents : events[k].index # idx
    /\ (Done /\ Retrieved) => i = Len(sessions)

\* a session without identifier was skipped and the call for the next
\* session, which has id and session_id but no _id, went out with its id
C9_Witness ==
    /\ Len(sessions) >= 2
    /\ DOMAIN sessions[1].v = {}
    /\ DOMAIN sessions[2].v = {"id", "session_id"}
    /\ \E k \in CallEvents : events[k].index = 1 /\ events[k].id = Str(id_b)
    /\ Len(failedSessions) >= 1
    /\ failedSessions[1].index = 0

(***************************************************************************)
(* C10.  The overall score of a report is the arithmetic mean of           *)
(* totalScore over the successful results, and 0 when there is none.       *)
(***************************************************************************)
RECURSIVE SumOfTotals(_, _)
SumOfTotals(results, k) ==
    IF k > Len(results) THEN 0
    ELSE Get(results[k].score, "totalScore").v + SumOfTotals(results, k + 1)

C10_OverallScoreIsMean ==
    (Done /\ SuccessReport) =>
        LET results == res.data.analysisResults
            overall == res.data.overallScore
        IN  /\ overall.t = "num"
            /\ Len(results) = 0 => overall.v = 0
            /\ Len(results) > 0 =>
                  overall.v * Len(results) = SumOfTotals(results, 1)

(***************************************************************************)
(* Direct calls of calculateSessionScore: the inputs.                      *)
(***************************************************************************)
\* o.path = x for a path of one name (top level) or two (group, field);
\* the group is created when o has none
SetPath(o, path, x) ==
    IF Len(path) = 1
    THEN Put(o, path[1], x)
    ELSE Put(o, path[1],
             Put(IF Get(o, path[1]).t = "obj" THEN Get(o, path[1]) ELSE EmptyObj,
                 path[2], x))

m_Resolved == Str(<<"R", "e", "s", "o", "l", "v", "e", "d">>)
m_open == Str(<<"o", "p", "e", "n">>)
m_Yes == Str(<<"Y", "e", "s">>)
m_YES == Str(<<"Y", "E", "S">>)
m_No == Str(<<"N", "o">>)
m_Bad == Str(<<"B", "a", "d">>)
m_great == Str(<<"g", "r", "e", "a", "t">>)
m_angry == Str(<<"a", "n", "g", "r", "y">>)
m_curt == Str(<<"c", "u", "r", "t">>)
m_5 == Str(<<"5">>)

p_status == <<"issue_status", "status">>
p_escalated == <<"human_escalation", "is_escalated">>
p_experience == <<"user_experience", "experience_level">>
p_completed == <<"is_chat_completed">>
p_quality == <<"response_quality", "overall_quality_score">>
p_accuracy == <<"accuracy_level">>
p_clear == <<"response_quality", "is_clear">>
p_concise == <<"response_quality", "is_concise">>
p_easy == <<"response_quality", "is_easy_to_understand">>
p_relevant == <<"response_quality", "is_relevant">>
p_sentiment == <<"user_sentiment", "sentiment">>
p_effort == <<"user_effort", "effort_level">>
p_tone == <<"bot_tone", "tone">>
p_necessity == <<"escalation_necessity", "was_escalation_necessary">>
p_latency == <<"overall_latency_classification">>

\* the values tried at each path the scorer reads: recognized and
\* unrecognized strings in lower and mixed case, numbers, booleans
FieldOptions ==
    << <<p_status, s_resolved>>, <<p_status, m_Resolved>>, <<p_status, m_open>>,
       <<p_escalated, s_no>>, <<p_escalated, s_yes>>, <<p_escalated, m_Yes>>,
       <<p_escalated, Bool(TRUE)>>,
       <<p_experience, N(5)>>, <<p_experience, N(3)>>, <<p_experience, N(1)>>,
       <<p_experience, N(7)>>, <<p_experience, m_5>>,
       <<p_completed, s_yes>>, <<p_completed, s_no>>, <<p_completed, m_YES>>,
       <<p_completed, Bool(TRUE)>>,
       <<p_quality, s_excellent>>, <<p_quality, s_good>>, <<p_quality, s_fair>>,
       <<p_quality, s_poor>>, <<p_quality, m_great>>,
       <<p_accuracy, s_correct>>, <<p_accuracy, s_partially_correct>>,
       <<p_accuracy, s_wrong>>, <<p_accuracy, N(1)>>,
       <<p_clear, s_yes>>, <<p_clear, s_no>>, <<p_concise, s_yes>>,
       <<p_easy, s_yes>>, <<p_relevant, s_yes>>, <<p_relevant, EmptyObj>>,
       <<p_sentiment, s_positive>>, <<p_sentiment, s_neutral>>,
       <<p_sentiment, s_negative>>, <<p_sentiment, s_frustrated>>,
       <<p_sentiment, m_angry>>,
       <<p_effort, N(1)>>, <<p_effort, N(3)>>, <<p_effort, N(5)>>, <<p_effort, N(0)>>,
       <<p_tone, s_professional>>, <<p_tone, s_friendly>>, <<p_tone, s_neutral>>,
       <<p_tone, s_inappropriate>>, <<p_tone, m_curt>>,
       <<p_necessity, s_no>>, <<p_necessity, m_No>>, <<p_necessity, s_yes>>,
       <<p_latency, s_good>>, <<p_latency, s_average>>, <<p_latency, s_bad>>,
       <<p_latency, m_Bad>>, <<p_latency, N(3)>> >>

\* the record whose ten factors all map to 100, without penalty fields
r_all_max ==
    Obj([issue_status |-> Obj([status |-> s_resolved]),
         human_escalation |-> Obj([is_escalated |-> s_no]),
         user_experience |-> Obj([experience_level |-> N(5)]),
         is_chat_completed |-> s_yes,
         response_quality |->
            Obj([overall_quality_score |-> s_excellent, is_clear |-> s_yes,
                 is_concise |-> s_yes, is_easy_to_understand |-> s_yes,
                 is_relevant |-> s_yes]),
         accuracy_level |-> s_correct,
         user_sentiment |-> Obj([sentiment |-> s_positive]),
         user_effort |-> Obj([effort_level |-> N(1)]),
         bot_tone |-> Obj([tone |-> s_professional])])

\* the record with both penalties and no factor above 0
r_all_penalties ==
    Obj([human_escalation |-> Obj([is_escalated |-> s_yes]),
         escalation_necessity |-> Obj([was_escalation_necessary |-> s_no]),
         overall_latency_classification |-> s_bad])

ScoreBases == <<EmptyObj, r_all_max, r_all_penalties>>

\* values that are no record
NonRecords == <<Undef, Null, N(0), Bool(FALSE), Str(<<>>), N(7), m_great>>

\* the arguments of the direct calls built on one base: the base with every
\* two options applied
ScoreInputs(base) ==
    {SetPath(SetPath(base, FieldOptions[j][1], FieldOptions[j][2]),
             FieldOptions[k][1], FieldOptions[k][2]) :
        j \in 1..Len(FieldOptions), k \in 1..Len(FieldOptions)}

\* the pipeline is not running
PipelineOff ==
    /\ pc = "off"
    /\ req = RequestBodies[1]
    /\ mongoClient = "null"
    /\ connectState = "none"
    /\ sessions = <<>>
    /\ i = 0
    /\ analysisResults = <<>>
    /\ failedSessions = <<>>
    /\ processedCount = 0
    /\ inFlight = {}
    /\ events = <<>>
    /\ storeOps = <<>>
    /\ res = NoResponse

InitScore ==
    /\ PipelineOff
    /\ ConnIdle
    /\ SampleOff
    /\ fnPc = "ready"
    /\ \/ \E b \in 1..Len(ScoreBases) : fnArg0 \in ScoreInputs(ScoreBases[b])
       \/ \E k \in 1..Len(NonRecords) : fnArg0 = NonRecords[k]
    /\ fnArg = fnArg0
    /\ fnRets = <<>>

\* calculateSessionScore(fnArg) returns
ScoreReturns ==
    /\ fnPc = "ready"
    /\ ~calculateSessionScoreThrows(fnArg)
    /\ fnRets' = Append(fnRets, calculateSessionScore(fnArg))
    /\ fnPc' = "returned"
    /\ UNCHANGED <<connVars, sampleVars, pipelineVars, fnArg0, fnArg>>

\* calculateSessionScore(fnArg) throws a TypeError
ScoreThrows ==
    /\ fnPc = "ready"
    /\ calculateSessionScoreThrows(fnArg)
    /\ fnPc' = "threw"
    /\ UNCHANGED <<connVars, sampleVars, pipelineVars, fnArg0, fnArg, fnRets>>


(***************************************************************************)
(* Properties of calculateSessionScore (SpecScore).                        *)
(***************************************************************************)
\* the call returned a { totalScore, breakdown } object
ReturnedBreakdown ==
    /\ fnPc = "returned"
    /\ fnRets[1].t = "obj"
    /\ Get(fnRets[1], "totalScore").t = "num"
    /\ Get(fnRets[1], "breakdown").t = "obj"

\* the returned totalScore and breakdown entries, in hundredths of a point
ReturnedTotal == Get(fnRets[1], "totalScore").v
ReturnedEntry(k) == Get(Get(fnRets[1], "breakdown"), k).v
ReturnedEntries == [k \in {BreakdownKeys[n] : n \in 1..Len(BreakdownKeys)} |->
                       ReturnedEntry(k)]

FactorKeys == SubSeq(BreakdownKeys, 1, 10)

\* every one of the ten factors maps to its maximum
AllFactorsMax(x) ==
    /\ issueResolutionScore(x) = 100
    /\ escalationScore(x) = 100
    /\ userExperienceScore(x) = 100
    /\ completionScore(x) = 100
    /\ responseQualityScore(x) = 100
    /\ accuracyScore(x) = 100
    /\ componentPoints(x) = 400
    /\ sentimentScore(x) = 100
    /\ effortScore(x) = 100
    /\ toneScore(x) = 100

\* C11: the totalScore that calculateSessionScore returns for a record lies
\* between 0 and 100 inclusive whatever penalties apply, and when every
\* factor is at its maximum mapping the weighted sum before the penalties is
\* exactly 100.
C11_TotalScoreWithinRange ==
    ReturnedBreakdown =>
        /\ ReturnedTotal >= 0
        /\ ReturnedTotal <= 10000
        /\ AllFactorsMax(fnArg0) =>
              SumKeys(ReturnedEntries, FactorKeys, 1) = 10000

\* all factors at their maximum and a latency penalty on top: 95 points
C11_Witness ==
    /\ ReturnedBreakdown
    /\ AllFactorsMax(fnArg0)
    /\ ReturnedEntry("penalties") = -500
    /\ ReturnedTotal = 9500

\* C12: calculateSessionScore never throws and always returns a breakdown
\* with a totalScore, for every input: an absent record, and records whose
\* factor fields are absent, unrecognized, or no string / no integer.
C12_ScorerNeverThrows ==
    /\ fnPc # "threw"
    /\ fnPc = "returned" => ReturnedBreakdown

\* the argument is as the normalizer leaves it: the scorer's declared input
IsNormalized(x) ==
    /\ ~normalizeAnalysisResultThrows(x)
    /\ normalizeAnalysisResult(x) = x

\* the latency penalty, in hundredths, that the claim names for a
\* classification
ExpectedLatencyPenalty(x) ==
    CASE Get(x, "overall_latency_classification") = s_average -> -200
      [] Get(x, "overall_latency_classification") = s_bad -> -500
      [] OTHER -> 0

\* C13: for a normalized record, totalScore is max(0, sum of all entries of
\* the returned breakdown, penalties included) rounded to two decimals; the
\* latency penalty is -2 for "average", -5 for "bad" and 0 otherwise; the
\* record holding only overall_latency_classification "bad" gets a penalties
\* entry of -5 and totalScore 0.
C13_TotalIsClampedSumOfBreakdown ==
    (ReturnedBreakdown /\ IsNormalized(fnArg0)) =>
        /\ ReturnedTotal =
              Max(0, Round2(SumKeys(ReturnedEntries, BreakdownKeys, 1), 1))
        /\ ReturnedEntry("penalties") - ExpectedLatencyPenalty(fnArg0)
              \in {0, -1000}
        /\ fnArg0 = Obj([overall_latency_classification |-> s_bad]) =>
              /\ ReturnedEntry("penalties") = -500
              /\ ReturnedTotal = 0

\* the scenario record was scored
C13_Witness ==
    /\ ReturnedBreakdown
    /\ fnArg0 = Obj([overall_latency_classification |-> s_bad])
    /\ ReturnedEntry("penalties") = -500
    /\ ReturnedTotal = 0

\* the escalation-necessity flag is "no" and the escalation flag is "yes"
UnnecessaryEscalation(x) ==
    /\ OptGet(x, "escalation_necessity", "was_escalation_necessary") = s_no
    /\ OptGet(x, "human_escalation", "is_escalated") = s_yes

\* C14: the escalation-necessity penalty of -10 points is applied exactly
\* when the escalation-necessity flag is "no" and the escalation flag is
\* "yes"; it is added to the weighted sum unscaled, after the weighting.
C14_EscalationPenaltyExactlyWhenUnnecessary ==
    ReturnedBreakdown =>
        /\ UnnecessaryEscalation(fnArg0) <=>
              ReturnedEntry("penalties") \in {-1000, -1200, -1500}
        /\ ~UnnecessaryEscalation(fnArg0) <=>
              ReturnedEntry("penalties") \in {0, -200, -500}
        /\ ReturnedTotal =
              Max(0, SumKeys(ReturnedEntries, FactorKeys, 1)
                        + ReturnedEntry("penalties"))

\* an unnecessary escalation on an otherwise good record: exactly 10 points
\* below the weighted sum
C14_Witness ==
    /\ ReturnedBreakdown
    /\ UnnecessaryEscalation(fnArg0)
    /\ ReturnedEntry("penalties") = -1000
    /\ ReturnedTotal = SumKeys(ReturnedEntries, FactorKeys, 1) - 1000
    /\ ReturnedTotal > 0

(***************************************************************************)
(* Direct calls of normalizeAnalysisResult.  The copy made at line 151 is  *)
(* shallow: every object-valued field of the copy is the same object as    *)
(* the argument's, so an assignment to normalized.g.f is an assignment to  *)
(* result.g.f.                                                             *)
(***************************************************************************)
MaxCalls == 2

TopLevelFields ==
    <<"accuracy_level", "is_chat_completed", "overall_latency_classification">>

\* the k-th of the ten `if` statements of lines 153-209, applied to the copy
Statement(o, k) ==
    CASE k \in 1..3 -> LowerGuarded(o, TopLevelFields[k])
      [] k \in 4..8 -> LowerNested(o, NestedPaths[k - 3][1], NestedPaths[k - 3][2])
      [] k = 9 -> LowerQuality(o)
      [] k = 10 -> LowerNested(o, NestedPaths[6][1], NestedPaths[6][2])

StatementThrows(o, k) ==
    CASE k \in 4..8 ->
            LowerNestedThrows(o, NestedPaths[k - 3][1], NestedPaths[k - 3][2])
      [] k = 10 -> LowerNestedThrows(o, NestedPaths[6][1], NestedPaths[6][2])
      [] OTHER -> FALSE

RECURSIVE RunStatements(_, _)
RunStatements(o, n) ==
    IF n = 0 THEN o ELSE Statement(RunStatements(o, n - 1), n)

\* how many of the ten statements complete: all, or those before the first
\* that throws
StatementsRun(o) ==
    IF \E k \in 1..10 : StatementThrows(o, k)
    THEN (CHOOSE k \in 1..10 :
             /\ StatementThrows(o, k)
             /\ \A j \in 1..(k - 1) : ~StatementThrows(o, j)) - 1
    ELSE 10

\* holder as it is once its object-valued fields, shared with the copy, hold
\* what the statements assigned through the copy
ShareGroups(holder, copy) ==
    IF holder.t # "obj" THEN holder
    ELSE Obj([g \in DOMAIN holder.v |->
                IF holder.v[g].t = "obj" /\ Get(copy, g).t = "obj"
                THEN copy.v[g] ELSE holder.v[g]])

\* the object passed as argument after the call on it returned or threw
ArgumentAfterNormalize(result) ==
    IF ~Truthy(result) \/ ~TypeofObject(result)
    THEN result
    ELSE ShareGroups(result,
                     RunStatements(Spread(result), StatementsRun(Spread(result))))

\* after the raw record was scored, it is normalized and scored again, as
\* the handler does at lines 572-574: calculateSessionScore(
\* normalizeAnalysisResult(fnArg)).  The normalizer writes into the nested
\* groups of fnArg.
ScoreNormalizedReturns ==
    /\ fnPc = "returned"
    /\ ~normalizeAnalysisResultThrows(fnArg)
    /\ ~calculateSessionScoreThrows(normalizeAnalysisResult(fnArg))
    /\ fnRets' = Append(fnRets,
                        calculateSessionScore(normalizeAnalysisResult(fnArg)))
    /\ fnArg' = ArgumentAfterNormalize(fnArg)
    /\ fnPc' = "rescored"
    /\ UNCHANGED <<connVars, sampleVars, pipelineVars, fnArg0>>

NextScore == ScoreReturns \/ ScoreThrows \/ ScoreNormalizedReturns

SpecScore == InitScore /\ [][NextScore]_vars

m_Asked == Str(<<"A", "s", "k", "e", "d">>)

TargetedPaths ==
    << <<"accuracy_level">>, <<"is_chat_completed">>,
       <<"overall_latency_classification">>,
       NestedPaths[1], NestedPaths[2], NestedPaths[3], NestedPaths[4],
       NestedPaths[5], NestedPaths[6],
       <<"response_quality", QualityFields[1]>>,
       <<"response_quality", QualityFields[2]>>,
       <<"response_quality", QualityFields[3]>>,
       <<"response_quality", QualityFields[4]>>,
       <<"response_quality", QualityFields[5]>> >>

\* the values tried at a targeted path: strings in mixed and lower case, a
\* boolean, a number, an object
TargetValues == <<m_Yes, s_yes, Bool(TRUE), N(7), EmptyObj>>

GroupPaths ==
    << <<"human_escalation">>, <<"response_quality">>,
       <<"conversation_quality">> >>

\* the values tried in place of a whole group
GroupValues == <<m_Yes, Null>>

NormalizeOptions ==
    {<<TargetedPaths[p], TargetValues[x]>> :
        p \in 1..Len(TargetedPaths), x \in 1..Len(TargetValues)}
    \cup {<<GroupPaths[p], GroupValues[x]>> :
             p \in 1..Len(GroupPaths), x \in 1..Len(GroupValues)}

\* a raw record with targeted and non-targeted fields in mixed case
r_mixed ==
    Obj([summary |-> m_Resolved,
         accuracy_level |-> m_great,
         human_escalation |-> Obj([is_escalated |-> m_No, reason |-> m_Asked]),
         response_quality |-> Obj([is_clear |-> m_YES, notes |-> m_Bad]),
         user_effort |-> Obj([effort_level |-> N(2)])])

NormalizeBases == <<EmptyObj, r_mixed>>

Arrays == <<Arr(<<>>), Arr(<<m_Yes>>), Arr(<<m_Yes, EmptyObj>>)>>

\* the records built on one base: the base with every two options applied
NormalizeInputs(base) ==
    {SetPath(SetPath(base, o1[1], o1[2]), o2[1], o2[2]) :
        o1 \in NormalizeOptions, o2 \in NormalizeOptions}

InitNormalize ==
    /\ PipelineOff
    /\ ConnIdle
    /\ SampleOff
    /\ fnPc = "ready"
    /\ \/ \E b \in 1..Len(NormalizeBases) :
             fnArg0 \in NormalizeInputs(NormalizeBases[b])
       \/ \E k \in 1..Len(NonRecords) : fnArg0 = NonRecords[k]
       \/ \E k \in 1..Len(Arrays) : fnArg0 = Arrays[k]
    /\ fnArg = fnArg0
    /\ fnRets = <<>>

\* what the next call is applied to: the caller's object, then the value
\* the call before returned
NextOperand == IF fnRets = <<>> THEN fnArg ELSE fnRets[Len(fnRets)]

\* normalizeAnalysisResult(NextOperand) returns
NormalizeReturns ==
    /\ fnPc \in {"ready", "returned"}
    /\ Len(fnRets) < MaxCalls
    /\ ~normalizeAnalysisResultThrows(NextOperand)
    /\ fnRets' = Append(fnRets, normalizeAnalysisResult(NextOperand))
    /\ fnArg' = IF fnRets = <<>>
                THEN ArgumentAfterNormalize(fnArg)
                ELSE ShareGroups(fnArg, ArgumentAfterNormalize(NextOperand))
    /\ fnPc' = "returned"
    /\ UNCHANGED <<connVars, sampleVars, pipelineVars, fnArg0>>

\* normalizeAnalysisResult(NextOperand) throws a TypeError
NormalizeThrows ==
    /\ fnPc \in {"ready", "returned"}
    /\ Len(fnRets) < MaxCalls
    /\ normalizeAnalysisResultThrows(NextOperand)
    /\ fnArg' = IF fnRets = <<>>
                THEN ArgumentAfterNormalize(fnArg)
                ELSE ShareGroups(fnArg, ArgumentAfterNormalize(NextOperand))
    /\ fnPc' = "threw"
    /\ UNCHANGED <<connVars, sampleVars, pipelineVars, fnArg0, fnRets>>

NextNormalize == NormalizeReturns \/ NormalizeThrows

SpecNormalize == InitNormalize /\ [][NextNormalize]_vars

(***************************************************************************)
(* Properties of normalizeAnalysisResult (SpecNormalize).                  *)
(***************************************************************************)
\* o.p for a path p of one or two names
PathGet(o, p) == IF Len(p) = 1 THEN Get(o, p[1]) ELSE OptGet(o, p[1], p[2])

IsTargeted(p) == \E k \in 1..Len(TargetedPaths) : TargetedPaths[k] = p

\* C15: normalizeAnalysisResult is idempotent: wherever normalize(x) has a
\* value, normalize(normalize(x)) has one too and equals it.
C15_NormalizeIdempotent ==
    /\ fnPc = "returned" => ~normalizeAnalysisResultThrows(fnRets[Len(fnRets)])
    /\ \A k \in 2..Len(fnRets) : fnRets[k] = fnRets[1]

\* the first call changed something and the second call changed nothing
C15_Witness ==
    /\ Len(fnRets) = 2
    /\ fnRets[1] # fnArg0
    /\ fnRets[2] = fnRets[1]

\* C16: normalizeAnalysisResult is pure: after a call the record passed as
\* argument, every nested group included, holds the same values as before
\* the call.
C16_NormalizeLeavesArgumentUnchanged ==
    fnPc \in {"returned", "threw"} => fnArg = fnArg0

\* C17: at every targeted path of normalizeAnalysisResult, top-level or
\* nested, a present non-string value (number, boolean, object) is returned
\* unchanged and the call completes without error.
C17_NonStringValuesPassThrough ==
    /\ fnPc # "threw"
    /\ (Len(fnRets) >= 1 /\ fnArg0.t = "obj") =>
          \A k \in 1..Len(TargetedPaths) :
              PathGet(fnArg0, TargetedPaths[k]).t \in {"num", "bool", "obj"} =>
                  PathGet(fnRets[1], TargetedPaths[k])
                      = PathGet(fnArg0, TargetedPaths[k])

\* the returned record has the fields of the argument, at the top level and
\* in every nested group, and its non-targeted fields have the argument's
\* values
SameFields(arg, ret) ==
    /\ ret.t = "obj"
    /\ DOMAIN ret.v = DOMAIN arg.v
    /\ \A g \in DOMAIN arg.v :
          IF arg.v[g].t = "obj"
          THEN /\ ret.v[g].t = "obj"
               /\ DOMAIN ret.v[g].v = DOMAIN arg.v[g].v
               /\ \A f \in DOMAIN arg.v[g].v :
                     ~IsTargeted(<<g, f>>) => ret.v[g].v[f] = arg.v[g].v[f]
          ELSE ~IsTargeted(<<g>>) => ret.v[g] = arg.v[g]

\* C18: the value returned by normalizeAnalysisResult has exactly the fields
\* of its input, at the top level and in every nested group, and every field
\* other than the targeted enum string fields keeps its value; an input that
\* is no record is returned unchanged.
C18_FieldsPreserved ==
    Len(fnRets) >= 1 =>
        IF fnArg0.t = "obj"
        THEN SameFields(fnArg0, fnRets[1])
        ELSE fnRets[1] = fnArg0

(***************************************************************************)
(* Direct calls of calculateAggregateStats.  The argument is undefined,    *)
(* null or an array of results; a result is a record with an analysis.     *)
(***************************************************************************)
MaxBatch == 6

\* the call on a value that may be absent: `!analysisResults || ...`
calculateAggregateStatsCallThrows(x) ==
    Truthy(x) /\ calculateAggregateStatsThrows(x.v)

calculateAggregateStatsCall(x) ==
    IF ~Truthy(x) THEN EmptyAggregateStats ELSE calculateAggregateStats(x.v)

m_partial == Str(<<"p", "a", "r", "t", "i", "a", "l">>)
m_maybe == Str(<<"m", "a", "y", "b", "e">>)

\* a session with every aggregated field
a_good ==
    Obj([is_chat_completed |-> m_Yes,
         user_sentiment |-> Obj([sentiment |-> s_positive]),
         bot_tone |-> Obj([tone |-> s_friendly]),
         conversation_quality |-> Obj([is_anydesk_required |-> Bool(TRUE)]),
         user_experience |-> Obj([experience_level |-> N(4)]),
         user_effort |-> Obj([effort_level |-> N(2)]),
         accuracy_level |-> s_correct,
         issue_status |-> Obj([status |-> s_resolved]),
         human_escalation |-> Obj([is_escalated |-> s_no])])

a_poor ==
    Obj([is_chat_completed |-> s_no,
         user_sentiment |-> Obj([sentiment |-> s_neutral]),
         bot_tone |-> Obj([tone |-> s_neutral]),
         conversation_quality |-> Obj([is_anydesk_required |-> Bool(FALSE)]),
         user_experience |-> Obj([experience_level |-> N(5)]),
         user_effort |-> Obj([effort_level |-> N(1)]),
         accuracy_level |-> s_wrong,
         issue_status |-> Obj([status |-> s_unresolved]),
         human_escalation |-> Obj([is_escalated |-> s_yes])])

\* a session with values outside the fixed keys and with fields missing
a_odd ==
    Obj([is_chat_completed |-> m_partial,
         user_sentiment |-> Obj([sentiment |-> s_negative]),
         conversation_quality |-> Obj([is_anydesk_required |-> m_maybe]),
         user_experience |-> Obj([experience_level |-> N(2)])])

\* a session whose anydesk flag is null
a_null_anydesk ==
    Obj([conversation_quality |-> Obj([is_anydesk_required |-> Null])])

Analyses == <<a_good, a_poor, a_odd, EmptyObj, a_null_anydesk>>

RECURSIVE Batches(_)
\* the batches of exactly n results
Batches(n) ==
    IF n = 0 THEN {<<>>}
    ELSE {Append(b, [analysis |-> Analyses[k]]) :
             b \in Batches(n - 1), k \in 1..Len(Analyses)}

InitAggregate ==
    /\ PipelineOff
    /\ ConnIdle
    /\ SampleOff
    /\ fnPc = "ready"
    /\ \/ fnArg0 \in {Undef, Null}
       \/ \E n \in 0..MaxBatch : \E b \in Batches(n) : fnArg0 = Arr(b)
    /\ fnArg = fnArg0
    /\ fnRets = <<>>

\* calculateAggregateStats(fnArg) returns
AggregateReturns ==
    /\ fnPc = "ready"
    /\ ~calculateAggregateStatsCallThrows(fnArg)
    /\ fnRets' = Append(fnRets, calculateAggregateStatsCall(fnArg))
    /\ fnPc' = "returned"
    /\ UNCHANGED <<connVars, sampleVars, pipelineVars, fnArg0, fnArg>>

\* calculateAggregateStats(fnArg) throws a TypeError
AggregateThrows ==
    /\ fnPc = "ready"
    /\ calculateAggregateStatsCallThrows(fnArg)
    /\ fnPc' = "threw"
    /\ UNCHANGED <<connVars, sampleVars, pipelineVars, fnArg0, fnArg, fnRets>>

NextAggregate == AggregateReturns \/ AggregateThrows

SpecAggregate == InitAggregate /\ [][NextAggregate]_vars

(***************************************************************************)
(* Properties of calculateAggregateStats (SpecAggregate).                  *)
(***************************************************************************)
CategoricalFields ==
    <<"average_chat_completion_rate", "average_user_sentiment_distribution",
      "average_bot_tone_distribution", "average_anydesk_required",
      "average_response_accuracy", "average_issue_resolution_rate",
      "average_human_escalation_rate">>

\* the value one session is counted under in a categorical field, undefined
\* when the session is not counted there
Lowered(x) == IF Truthy(x) THEN toLowerCase(x) ELSE Undef

Observed(analysis, field) ==
    CASE field = "average_chat_completion_rate" ->
            Lowered(Get(analysis, "is_chat_completed"))
      [] field = "average_user_sentiment_distribution" ->
            Lowered(OptGet(analysis, "user_sentiment", "sentiment"))
      [] field = "average_bot_tone_distribution" ->
            Lowered(OptGet(analysis, "bot_tone", "tone"))
      [] field = "average_anydesk_required" ->
            IF OptGet(analysis, "conversation_quality", "is_anydesk_required")
                  = Undef
            THEN Undef
            ELSE toString(OptGet(analysis, "conversation_quality",
                                 "is_anydesk_required"))
      [] field = "average_response_accuracy" ->
            Lowered(Get(analysis, "accuracy_level"))
      [] field = "average_issue_resolution_rate" ->
            Lowered(OptGet(analysis, "issue_status", "status"))
      [] field = "average_human_escalation_rate" ->
            Lowered(OptGet(analysis, "human_escalation", "is_escalated"))

\* the number of sessions of the batch counted under key in field
Observations(batch, field, key) ==
    Cardinality({k \in 1..Len(batch) : Observed(batch[k].analysis, field) = key})

\* p is x = n / total * 100 rounded to the nearest integer, a tie going up
IsRoundedShare(p, n, total) ==
    /\ 2 * (p * total - 100 * n) > -total
    /\ 2 * (p * total - 100 * n) <= total

RECURSIVE SumPct(_, _)
SumPct(dist, k) ==
    IF k > Len(dist) THEN 0 ELSE dist[k].pct + SumPct(dist, k + 1)

\* the call on a batch with at least one session returned
AggregatedBatch ==
    /\ fnPc = "returned"
    /\ fnArg0.t = "arr"
    /\ Len(fnArg0.v) > 0

\* every percentage of field is the rounded share of the sessions counted
\* under its key, the batch size being the denominator
SharesOfSessions(field) ==
    \A k \in 1..Len(fnRets[1][field]) :
        IsRoundedShare(fnRets[1][field][k].pct,
                       Observations(fnArg0.v, field, fnRets[1][field][k].key),
                       Len(fnArg0.v))

NoBatch == ~Truthy(fnArg0) \/ (fnArg0.t = "arr" /\ Len(fnArg0.v) = 0)

\* a fixed-key distribution reporting 0 for both of its outcomes
BothZero(dist, k1, k2) ==
    dist = <<[key |-> k1, pct |-> 0], [key |-> k2, pct |-> 0]>>

\* C20: calculateAggregateStats on an empty or absent batch returns without
\* throwing: every open categorical distribution is an empty mapping, every
\* fixed-key distribution reports 0 for both outcomes, and both numeric
\* averages are 0.
C20_EmptyBatchAggregate ==
    NoBatch =>
        /\ fnPc # "threw"
        /\ fnPc = "returned" =>
              /\ fnRets[1].average_user_sentiment_distribution = <<>>
              /\ fnRets[1].average_bot_tone_distribution = <<>>
              /\ fnRets[1].average_response_accuracy = <<>>
              /\ BothZero(fnRets[1].average_chat_completion_rate, s_yes, s_no)
              /\ BothZero(fnRets[1].average_anydesk_required, s_true, s_false)
              /\ BothZero(fnRets[1].average_issue_resolution_rate,
                          s_resolved, s_unresolved)
              /\ BothZero(fnRets[1].average_human_escalation_rate, s_yes, s_no)
              /\ fnRets[1].average_user_experience_level = N(0)
              /\ fnRets[1].average_user_effort_level = N(0)

\* the call on the empty batch returned
C20_Witness ==
    /\ fnPc = "returned"
    /\ fnArg0 = Arr(<<>>)
    /\ fnRets[1].average_user_effort_level = N(0)

(***************************************************************************)
(* Concurrent calls of connectToMongoDB (src/index.js 17-29).  A call runs *)
(* without interruption up to its await; the module-level handle is        *)
(* assigned before connect() is awaited and is never reset.                *)
(***************************************************************************)
\* the pipeline variables connectToMongoDB does not touch
handlerVars ==
    <<pc, req, sessions, i, analysisResults, failedSessions, processedCount,
      inFlight, events, storeOps, res>>

InitConnect ==
    /\ PipelineOff
    /\ ConnIdle
    /\ SampleOff
    /\ FnIdle

\* caller c calls connectToMongoDB and runs to its first await or return:
\* with no handle, it creates the client, stores it and awaits connect();
\* with a handle, it returns the handle at once
CallConnect(c) ==
    /\ callerPc[c] # "awaiting"
    /\ IF mongoClient = "null"
       THEN /\ mongoClient' = "client"
            /\ connectState' = "pending"
            /\ callerPc' = [callerPc EXCEPT ![c] = "awaiting"]
            /\ received' = [received EXCEPT ![c] = "none"]
       ELSE /\ callerPc' = [callerPc EXCEPT ![c] = "returned"]
            /\ received' = [received EXCEPT ![c] = connectState]
            /\ UNCHANGED <<mongoClient, connectState>>
    /\ UNCHANGED <<handlerVars, fnVars, sampleVars>>

\* connect() resolves for the caller awaiting it, which returns the handle
AwaitedConnectResolves(c) ==
    /\ callerPc[c] = "awaiting"
    /\ connectState' = "ok"
    /\ callerPc' = [callerPc EXCEPT ![c] = "returned"]
    /\ received' = [received EXCEPT ![c] = "ok"]
    /\ UNCHANGED <<mongoClient, handlerVars, fnVars, sampleVars>>

\* connect() rejects for the caller awaiting it: the catch rethrows, the
\* handle keeps the client
AwaitedConnectRejects(c) ==
    /\ callerPc[c] = "awaiting"
    /\ connectState' = "failed"
    /\ callerPc' = [callerPc EXCEPT ![c] = "threw"]
    /\ UNCHANGED <<mongoClient, received, handlerVars, fnVars, sampleVars>>

NextConnect ==
    \E c \in Callers :
        \/ CallConnect(c)
        \/ AwaitedConnectResolves(c)
        \/ AwaitedConnectRejects(c)

SpecConnect == InitConnect /\ [][NextConnect]_vars

\* C21: under any interleaving of concurrent callers of connectToMongoDB,
\* and after any earlier failed attempt, a call that returns normally returns
\* a client whose connect() has completed successfully, never one whose
\* connection is still in progress or has failed.
C21_ReturnedClientIsConnected ==
    \A c \in Callers : callerPc[c] = "returned" => received[c] = "ok"

\* C22: scoring is insensitive to the letter case of enum strings: for every
\* analysis record x, calculateSessionScore(x) and
\* calculateSessionScore(normalizeAnalysisResult(x)) return the same
\* totalScore and the same breakdown, the penalties entry included.
C22_ScoreIgnoresLetterCase ==
    (fnPc = "rescored" /\ fnArg0.t = "obj") => fnRets[2] = fnRets[1]

(***************************************************************************)
(* The sampling variant, getChatSessionsByDate (src/unnamed/part_000       *)
(* 75-129).  A stored document is known by its _id, which the store keeps  *)
(* unique; the documents find() delivers are numbered 1..n.                *)
(***************************************************************************)
MaxMatching == 5
SampleSize == 4

otherVars == <<pipelineVars, fnVars, connVars>>
loopVars == <<runI, sessionResult, session_results, serviceCalls, runOutcome>>

\* the call has issued collection.find(dateFilter).toArray()
InitSelect ==
    /\ PipelineOff
    /\ FnIdle
    /\ ConnIdle
    /\ runPc = "querying"
    /\ matchingSessions = <<>>
    /\ usedIndices = {}
    /\ selectedSessions = <<>>
    /\ returnedSessions = <<>>
    /\ runI = 0
    /\ sessionResult = NoSessionResult
    /\ session_results = <<>>
    /\ serviceCalls = <<>>
    /\ runOutcome = NoOutcome

\* find() delivers n documents: fewer than 4 are returned as they are,
\* otherwise the selection loop starts
FindDelivers(n) ==
    /\ runPc = "querying"
    /\ matchingSessions' = [k \in 1..n |-> k]
    /\ IF n >= SampleSize
       THEN /\ runPc' = "selecting"
            /\ UNCHANGED returnedSessions
       ELSE /\ runPc' = "returned"
            /\ returnedSessions' = [k \in 1..n |-> k]
    /\ UNCHANGED <<usedIndices, selectedSessions, loopVars, otherVars>>

\* find() rejects: the catch returns []
FindRejects ==
    /\ runPc = "querying"
    /\ runPc' = "failed"
    /\ returnedSessions' = <<>>
    /\ UNCHANGED <<matchingSessions, usedIndices, selectedSessions, loopVars,
                   otherVars>>

Draw_repeats(randomIndex) ==
    /\ runPc = "selecting"
    /\ Len(selectedSessions) < SampleSize
    /\ Cardinality(usedIndices) < Len(matchingSessions)
    /\ usedIndices' = usedIndices \cup {randomIndex}
    /\ selectedSessions' =
          Append(selectedSessions, matchingSessions[randomIndex + 1])
    /\ IF Len(selectedSessions') < SampleSize
       THEN UNCHANGED <<runPc, returnedSessions>>
       ELSE /\ runPc' = "returned"
            /\ returnedSessions' = selectedSessions'
    /\ UNCHANGED <<matchingSessions, loopVars, otherVars>>

\* one turn of the while loop with Math.floor(Math.random() * length) =
\* randomIndex: a fresh index is recorded and its document pushed, a used
\* one changes nothing; when the loop test then fails, selectedSessions is
\* returned
Draw(randomIndex) ==
    /\ runPc = "selecting"
    /\ Len(selectedSessions) < SampleSize
    /\ Cardinality(usedIndices) < Len(matchingSessions)
    /\ IF randomIndex \notin usedIndices
       THEN /\ usedIndices' = usedIndices \cup {randomIndex}
            /\ selectedSessions' =
                  Append(selectedSessions, matchingSessions[randomIndex + 1])
       ELSE UNCHANGED <<usedIndices, selectedSessions>>
    /\ IF /\ Len(selectedSessions') < SampleSize
          /\ Cardinality(usedIndices') < Len(matchingSessions)
       THEN UNCHANGED <<runPc, returnedSessions>>
       ELSE /\ runPc' = "returned"
            /\ returnedSessions' = selectedSessions'
    /\ UNCHANGED <<matchingSessions, loopVars, otherVars>>

Drawing == \E randomIndex \in 0..(Len(matchingSessions) - 1) : Draw(randomIndex)

NextSelect ==
    \/ \E n \in 0..MaxMatching : FindDelivers(n)
    \/ FindRejects
    \/ Drawing

SpecSelect == InitSelect /\ [][NextSelect]_vars

\* the random choice is fair: a draw that changes the state (a fresh index)
\* is not put off forever
SpecSelectFair == SpecSelect /\ WF_vars(Drawing)

\* s lists pairwise distinct members of the sequence of
Sample(s, of) ==
    /\ \A k \in 1..Len(s) : \E j \in 1..Len(of) : of[j] = s[k]
    /\ \A j, k \in 1..Len(s) : j # k => s[j] # s[k]

\* what a finished call returned
C23_ReturnsAllOrFour ==
    runPc = "returned" =>
        IF Len(matchingSessions) < SampleSize
        THEN returnedSessions = matchingSessions
        ELSE /\ Len(returnedSessions) = SampleSize
             /\ Sample(returnedSessions, matchingSessions)

\* C23: getChatSessionsByDate returns all matching sessions when fewer than
\* 4 match; when 4 or more match, its random selection loop terminates under
\* fair random choice and returns exactly 4 pairwise distinct sessions, each
\* a member of the matching set.
C23_SamplingSelectsFour ==
    /\ []C23_ReturnsAllOrFour
    /\ (runPc = "selecting") ~> (runPc = "returned")

\* four of five matching documents were returned
C23_Witness ==
    /\ runPc = "returned"
    /\ Len(matchingSessions) = MaxMatching
    /\ Len(returnedSessions) = SampleSize
    /\ returnedSessions # SubSeq(matchingSessions, 1, SampleSize)

(***************************************************************************)
(* The sampling variant's run, getSessionsAndProcessWithAgent              *)
(* (src/unnamed/part_000 271-410).  invokeWorkflow and                     *)
(* invokeAgentWithWorkflowResults catch every error and return either the  *)
(* response body or an { error } object; saveResultsToJson returns a path  *)
(* or null.                                                                *)
(***************************************************************************)
s_success == Str(<<"s", "u", "c", "c", "e", "s", "s">>)
s_HTTP_500 == Str(<<"H", "T", "T", "P", " ", "5", "0", "0">>)

\* what invokeWorkflow can return: a successful body with a result, one
\* without, an { error } object, a body that is null, a body that is text
WorkflowResults ==
    <<Obj([status |-> s_success, result |-> Obj([answer |-> s_good])]),
      Obj([status |-> s_success]),
      Obj([error |-> s_HTTP_500]),
      Null,
      s_bad>>

\* what invokeAgentWithWorkflowResults can return
AgentResults ==
    <<Obj([output |-> s_good]), Obj([error |-> s_HTTP_500]), Null>>

selectVars == <<matchingSessions, usedIndices, selectedSessions>>

InitRun ==
    /\ PipelineOff
    /\ FnIdle
    /\ ConnIdle
    /\ runPc = "start"
    /\ matchingSessions = <<>>
    /\ usedIndices = {}
    /\ selectedSessions = <<>>
    /\ returnedSessions = <<>>
    /\ runI = 0
    /\ sessionResult = NoSessionResult
    /\ session_results = <<>>
    /\ serviceCalls = <<>>
    /\ runOutcome = NoOutcome

\* the outer catch: { success: false, message: `Processing failed: ...` }
RunFailure(message) == [success |-> FALSE, message |-> message]

\* connectToMongoDB resolves and getChatSessionsByDate is called
RunConnects ==
    /\ runPc = "start"
    /\ runPc' = "querying"
    /\ UNCHANGED <<selectVars, returnedSessions, loopVars, otherVars>>

\* connectToMongoDB rethrows: the outer catch returns the failure
RunConnectFails ==
    /\ runPc = "start"
    /\ runPc' = "done"
    /\ runOutcome' = RunFailure("Processing failed")
    /\ UNCHANGED <<selectVars, returnedSessions, runI, sessionResult,
                   session_results, serviceCalls, otherVars>>

\* the sessionResult object an iteration starts with
PendingResult(sessionIds, k) ==
    [session_id |-> sessionIds[k + 1],
     processing_order |-> k + 1,
     workflow_result |-> Null,
     agent_result |-> Null,
     status |-> "pending",
     errors |-> <<>>]

\* getChatSessionsByDate returns k documents (at most 4, pairwise distinct):
\* none ends the run; otherwise the loop starts and the first workflow call
\* is issued
SessionsReturned(k) ==
    /\ runPc = "querying"
    /\ returnedSessions' = [j \in 1..k |-> j]
    /\ IF k = 0
       THEN /\ runPc' = "done"
            /\ runOutcome' = RunFailure("No sessions found for the specified date")
            /\ UNCHANGED <<runI, sessionResult, serviceCalls>>
       ELSE /\ runPc' = "workflow"
            /\ runI' = 0
            /\ sessionResult' = PendingResult(returnedSessions', 0)
            /\ serviceCalls' = Append(serviceCalls, [kind |-> "workflow", id |-> 1])
            /\ UNCHANGED runOutcome
    /\ UNCHANGED <<selectVars, session_results, otherVars>>

\* workflowResult.status === 'success' && workflowResult.result
WorkflowSucceeded(w) ==
    Get(w, "status") = s_success /\ Truthy(Get(w, "result"))

AfterWorkflow_pending(sr, w) ==
    IF Nullish(w)
    THEN [sr EXCEPT !.workflow_result = w]
    ELSE IF WorkflowSucceeded(w)
    THEN [sr EXCEPT !.workflow_result = w]
    ELSE [sr EXCEPT !.workflow_result = w,
                    !.status = "workflow_error",
                    !.errors = Append(@, "Workflow failed for session")]

\* sessionResult once invokeWorkflow returned w: reading w.status of a null
\* body throws into the catch; a success with a result goes on to the agent
AfterWorkflow(sr, w) ==
    IF Nullish(w)
    THEN [sr EXCEPT !.workflow_result = w,
                    !.status = "error",
                    !.errors = Append(@, "Processing error")]
    ELSE IF WorkflowSucceeded(w)
    THEN [sr EXCEPT !.workflow_result = w]
    ELSE [sr EXCEPT !.workflow_result = w,
                    !.status = "workflow_error",
                    !.errors = Append(@, "Workflow failed for session")]

\* sessionResult once the agent returned a: reading a.error of a null body
\* throws into the catch
AfterAgent(sr, a) ==
    IF Nullish(a)
    THEN [sr EXCEPT !.agent_result = a,
                    !.status = "error",
                    !.errors = Append(@, "Processing error")]
    ELSE IF ~Truthy(Get(a, "error"))
    THEN [sr EXCEPT !.agent_result = a, !.status = "completed"]
    ELSE [sr EXCEPT !.agent_result = a,
                    !.status = "agent_error",
                    !.errors = Append(@, "Agent error")]

CountStatus(results, status) ==
    Cardinality({k \in 1..Len(results) : results[k].status = status})

\* metadata.summary
Summary(results) ==
    [successful_sessions |-> CountStatus(results, "completed"),
     workflow_errors |-> CountStatus(results, "workflow_error"),
     agent_errors |-> CountStatus(results, "agent_error"),
     other_errors |-> CountStatus(results, "error")]

\* the end of an iteration with the finished sessionResult sr: it is pushed;
\* then the next iteration starts with its workflow call, or the summary is
\* computed and saveResultsToJson is awaited
EndIteration(sr) ==
    /\ session_results' = Append(session_results, sr)
    /\ runI' = runI + 1
    /\ IF runI + 1 < Len(returnedSessions)
       THEN /\ runPc' = "workflow"
            /\ sessionResult' = PendingResult(returnedSessions, runI + 1)
            /\ serviceCalls' =
                  Append(serviceCalls,
                         [kind |-> "workflow", id |-> returnedSessions[runI + 2]])
       ELSE /\ runPc' = "saving"
            /\ sessionResult' = sr
            /\ UNCHANGED serviceCalls
    /\ UNCHANGED <<selectVars, returnedSessions, runOutcome, otherVars>>

\* invokeWorkflow returns w
WorkflowReturns(w) ==
    /\ runPc = "workflow"
    /\ IF ~Nullish(w) /\ WorkflowSucceeded(w)
       THEN /\ runPc' = "agent"
            /\ sessionResult' = AfterWorkflow(sessionResult, w)
            /\ serviceCalls' =
                  Append(serviceCalls,
                         [kind |-> "agent", id |-> sessionResult.session_id])
            /\ UNCHANGED <<selectVars, returnedSessions, runI, session_results,
                           runOutcome, otherVars>>
       ELSE EndIteration(AfterWorkflow(sessionResult, w))

\* invokeAgentWithWorkflowResults returns a
AgentReturns(a) ==
    /\ runPc = "agent"
    /\ EndIteration(AfterAgent(sessionResult, a))

\* saveResultsToJson returns the path or null; the run returns its results
SaveReturns(saved) ==
    /\ runPc = "saving"
    /\ runPc' = "done"
    /\ runOutcome' =
          [success |-> TRUE,
           data |-> [metadata |->
                        [total_sessions |-> Len(returnedSessions),
                         summary |-> Summary(session_results)],
                     session_results |-> session_results],
           saved_file |-> saved]
    /\ UNCHANGED <<selectVars, returnedSessions, runI, sessionResult,
                   session_results, serviceCalls, otherVars>>

NextRun ==
    \/ RunConnects
    \/ RunConnectFails
    \/ \E k \in 0..SampleSize : SessionsReturned(k)
    \/ \E k \in 1..Len(WorkflowResults) : WorkflowReturns(WorkflowResults[k])
    \/ \E k \in 1..Len(AgentResults) : AgentReturns(AgentResults[k])
    \/ \E saved \in {"path", "null"} : SaveReturns(saved)

SpecRun == InitRun /\ [][NextRun]_vars

(***************************************************************************)
(* Properties of the sampling variant's run (SpecRun).                     *)
(***************************************************************************)
FinalStatuses == {"completed", "workflow_error", "agent_error", "error"}

\* the loop is over
LoopOver == runPc = "saving" \/ (runPc = "done" /\ runOutcome.success = TRUE)

\* the number of calls of one kind issued for one session
CallsFor(kind, id) ==
    Cardinality({p \in 1..Len(serviceCalls) :
                    serviceCalls[p] = [kind |-> kind, id |-> id]})

\* the sessionResult of session id: the pushed one, or the one in the making
ResultOf(id) ==
    IF \E k \in 1..Len(session_results) : session_results[k].session_id = id
    THEN session_results[CHOOSE k \in 1..Len(session_results) :
                            session_results[k].session_id = id]
    ELSE sessionResult

\* C24: every selected session gets exactly one session result, in
\* processing order, whose final status is one of completed, workflow_error,
\* agent_error or error and never pending; the agent is invoked for a session
\* only after that session's workflow call succeeded with a result; and the
\* four summary counts sum to total_sessions.
C24_OneFinalResultPerSession ==
    /\ Len(session_results) <= Len(returnedSessions)
    /\ LoopOver => Len(session_results) = Len(returnedSessions)
    /\ \A k \in 1..Len(session_results) :
          /\ session_results[k].session_id = returnedSessions[k]
          /\ session_results[k].processing_order = k
          /\ session_results[k].status \in FinalStatuses
    /\ \A p \in 1..Len(serviceCalls) :
          serviceCalls[p].kind = "agent" =>
              /\ p > 1
              /\ serviceCalls[p - 1] =
                    [kind |-> "workflow", id |-> serviceCalls[p].id]
              /\ CallsFor("agent", serviceCalls[p].id) = 1
              /\ WorkflowSucceeded(ResultOf(serviceCalls[p].id).workflow_result)
    /\ \A k \in 1..Len(returnedSessions) :
          CallsFor("workflow", returnedSessions[k]) <= 1
    /\ (runPc = "done" /\ runOutcome.success = TRUE) =>
          /\ runOutcome.data.session_results = session_results
          /\ runOutcome.data.metadata.total_sessions = Len(returnedSessions)
          /\ runOutcome.data.metadata.summary.successful_sessions
                + runOutcome.data.metadata.summary.workflow_errors
                + runOutcome.data.metadata.summary.agent_errors
                + runOutcome.data.metadata.summary.other_errors
                = runOutcome.data.metadata.total_sessions

\* a finished run of four sessions that ended in the four statuses
C24_Witness ==
    /\ runPc = "done"
    /\ runOutcome.success = TRUE
    /\ Len(session_results) = SampleSize
    /\ {session_results[k].status : k \in 1..SampleSize} = FinalStatuses
    /\ CallsFor("agent", returnedSessions[1]) + CallsFor("agent", returnedSessions[2])
          + CallsFor("agent", returnedSessions[3])
          + CallsFor("agent", returnedSessions[4]) = 2

====
